---------------------------- MODULE Spec2Model ----------------------------
(***************************************************************************)
(* A model of the decision / paper-trading engine of RLdC_AiNalyzator:     *)
(*   decision_engine/aggregator.py    SignalAggregator, TradeSignal        *)
(*   decision_engine/paper_trader.py  PaperTrader                          *)
(*   decision_engine/core.py          BotKernel                            *)
(*   portfolio_management/*.py        PortfolioManager, RiskEngine         *)
(*                                                                         *)
(* Python floats are modelled as exact rationals on fixed grids, held as   *)
(* integers:                                                               *)
(*   a score            is a multiple of 1/SD                              *)
(*   a weight           is a multiple of 1/WD                              *)
(*   a weighted score   is a multiple of 1/(SD*WD), as is a confidence     *)
(*   money, quantities  are multiples of 1/Q; a price is whole money units *)
(*   a rate/percentage  is a multiple of 1/RD; a risk limit of 1/PD        *)
(* An operation whose exact result is off the grid is not taken (Exact).   *)
(***************************************************************************)
EXTENDS Integers, Sequences, FiniteSets, TLC

VARIABLES
    \* SignalAggregator
    agg_constructed,    \* TRUE when the last SignalAggregator(...) returned an object
    sentiment_weight, quantum_weight, ai_weight,
    agg_call,           \* the last aggregate_signals / TradeSignal call and its result
    \* PaperTrader
    initial_balance, balance, holdings, fee_rate, min_trade_amount,
    trade_history,
    ret,                \* outcome of the last PaperTrader call
    \* PortfolioManager
    cash_balance, positions,
    \* RiskEngine
    max_position_size_pct, max_drawdown_pct, risk_initial_balance,
    ledger_call,        \* the last PortfolioManager / RiskEngine call and its outcome
    \* BotKernel
    kernel,             \* fetchers, trade_percentage, step_count, caches, last result
    \* Backtester
    backtester,         \* the object's fields, the position of run, the runs completed
    \* Execution Loop
    loop,               \* its state, its place in the cycle, the cycles begun
    \* backtesting/analytics.py
    analytics           \* the last call of an analytics function and its result

aggVars    == <<agg_constructed, sentiment_weight, quantum_weight, ai_weight, agg_call>>
traderVars == <<initial_balance, balance, holdings, fee_rate, min_trade_amount,
                trade_history, ret>>
pmVars     == <<cash_balance, positions>>
riskVars   == <<max_position_size_pct, max_drawdown_pct, risk_initial_balance, ledger_call>>
vars       == <<aggVars, traderVars, pmVars, riskVars, kernel, backtester, loop,
               analytics>>

---------------------------------------------------------------------------
(* Grids *)

SD == 4 * 5                 \* scores in twentieths
WD == 2 * 1000 * 1000       \* weights in units of 5e-7
SW == SD * WD               \* scale of a weighted score and of a confidence
Q  == 100 * 100             \* money and quantities in ten-thousandths
RD == 2 * 5                 \* rates and percentages in tenths
PD == 10 * 10               \* risk limits in hundredths
FD == 10 * 10 * 10          \* fee rates in thousandths

Abs(x) == IF x < 0 THEN -x ELSE x
Min(a, b) == IF a <= b THEN a ELSE b
Max(a, b) == IF a >= b THEN a ELSE b
Exact(x, d) == x % d = 0

None == "None"

---------------------------------------------------------------------------
(* decision_engine/aggregator.py *)

\* 1e-6 on the weight grid
WeightTolerance == WD \div (1000 * 1000)

\* The thresholds of the rules, on the grids they are compared on.
StrongNegativeSentiment == -((8 * SD) \div 10)    \* -0.8
StrongPositiveSentiment == (8 * SD) \div 10       \*  0.8
AiAgreement             == (6 * SD) \div 10       \*  0.6
QuantumExtreme          == (9 * SD) \div 10       \*  0.9
VetoSellScore           == -((5 * SW) \div 10)    \* -0.5
QuantumDivergence       == (5 * SW) \div 10       \*  0.5
BuyThreshold            == (3 * SW) \div 10       \*  0.3
SellThreshold           == -((3 * SW) \div 10)    \* -0.3
VetoConfidenceCap       == (19 * SW) \div 20      \*  0.95
ConfidenceCap           == SW                   \*  1.0

\* TradeSignal.__post_init__: the confidence must lie in [0.0, 1.0]
TradeSignalValid(confidence) == 0 <= confidence /\ confidence <= SW

TradeSignal(action, confidence, reason) ==
    IF TradeSignalValid(confidence)
    THEN [action |-> action, confidence |-> confidence, reason |-> reason]
    ELSE [action |-> "ValueError", confidence |-> confidence, reason |-> None]

\* The weight check with a tolerance ten times too wide
WeightsAcceptedLoosely(sw, qw, aw) == Abs((sw + qw + aw) - WD) <= 10 * WeightTolerance

\* SignalAggregator.__init__: the weight check
WeightsAccepted(sw, qw, aw) == Abs((sw + qw + aw) - WD) <= WeightTolerance

\* SignalAggregator._normalize_value with min_val = -1, max_val = 1.
\* (value - min_val) / (max_val - min_val) is kept doubled, on the score grid.
normalize_value(value) ==
    LET twiceNormalized == value - (-SD)        \* 2 * (value + 1) / 2
        scaled          == twiceNormalized - SD \* 2 * normalized - 1
    IN  Max(-SD, Min(SD, scaled))

weighted_score(ns, nq, na, sw, qw, aw) == ns * sw + nq * qw + na * aw

NoVeto == [action |-> None, reason |-> None]

\* The veto rules without the negative-sentiment rule
apply_veto_rules_without_negative_veto(ns, nq, na, ws) ==
    IF ns > StrongPositiveSentiment /\ na > AiAgreement
    THEN [action |-> "BUY",
          reason |-> "Veto: Strong positive sentiment confirmed by AI"]
    ELSE IF Abs(nq) > QuantumExtreme /\ Abs(nq * WD - ws) > QuantumDivergence
    THEN [action |-> "HOLD",
          reason |-> "Veto: Quantum indicator shows extreme divergence"]
    ELSE NoVeto

\* The veto rules with the quantum-divergence rule tried before the agreement rule
apply_veto_rules_divergence_first(ns, nq, na, ws) ==
    IF ns < StrongNegativeSentiment
    THEN IF ws < VetoSellScore
         THEN [action |-> "SELL",
               reason |-> "Veto: Strong negative sentiment with negative overall signal"]
         ELSE [action |-> "HOLD",
               reason |-> "Veto: Strong negative sentiment prevents buying"]
    ELSE IF Abs(nq) > QuantumExtreme /\ Abs(nq * WD - ws) > QuantumDivergence
    THEN [action |-> "HOLD",
          reason |-> "Veto: Quantum indicator shows extreme divergence"]
    ELSE IF ns > StrongPositiveSentiment /\ na > AiAgreement
    THEN [action |-> "BUY",
          reason |-> "Veto: Strong positive sentiment confirmed by AI"]
    ELSE NoVeto

\* The veto rules without the quantum-divergence rule
apply_veto_rules_without_divergence(ns, nq, na, ws) ==
    IF ns < StrongNegativeSentiment
    THEN IF ws < VetoSellScore
         THEN [action |-> "SELL",
               reason |-> "Veto: Strong negative sentiment with negative overall signal"]
         ELSE [action |-> "HOLD",
               reason |-> "Veto: Strong negative sentiment prevents buying"]
    ELSE IF ns > StrongPositiveSentiment /\ na > AiAgreement
    THEN [action |-> "BUY",
          reason |-> "Veto: Strong positive sentiment confirmed by AI"]
    ELSE NoVeto

\* SignalAggregator._apply_veto_rules
apply_veto_rules(ns, nq, na, ws) ==
    IF ns < StrongNegativeSentiment
    THEN IF ws < VetoSellScore
         THEN [action |-> "SELL",
               reason |-> "Veto: Strong negative sentiment with negative overall signal"]
         ELSE [action |-> "HOLD",
               reason |-> "Veto: Strong negative sentiment prevents buying"]
    ELSE IF ns > StrongPositiveSentiment /\ na > AiAgreement
    THEN [action |-> "BUY",
          reason |-> "Veto: Strong positive sentiment confirmed by AI"]
    ELSE IF Abs(nq) > QuantumExtreme /\ Abs(nq * WD - ws) > QuantumDivergence
    THEN [action |-> "HOLD",
          reason |-> "Veto: Quantum indicator shows extreme divergence"]
    ELSE NoVeto

\* The confidence of a veto decision: min(0.95, abs(weighted_score))
veto_confidence(ws) == Min(VetoConfidenceCap, Abs(ws))

\* The confidence of a threshold decision without its cap
normal_confidence_uncapped(ws) == Abs(ws)

\* The confidence of a threshold decision: min(1.0, abs(weighted_score))
normal_confidence(ws) == Min(ConfidenceCap, Abs(ws))

\* aggregate_signals with a score on a threshold counted as beyond it
aggregate_signals_inclusive_thresholds(sentiment_data, quantum_data, ai_prediction, sw, qw, aw) ==
    LET ns   == normalize_value(sentiment_data)
        nq   == normalize_value(quantum_data)
        na   == normalize_value(ai_prediction)
        ws   == weighted_score(ns, nq, na, sw, qw, aw)
        veto == apply_veto_rules(ns, nq, na, ws)
    IN  IF veto.action # None
        THEN TradeSignal(veto.action, veto_confidence(ws), veto.reason)
        ELSE IF ws >= BuyThreshold
        THEN TradeSignal("BUY", normal_confidence(ws),
                         "Weighted score indicates bullish signal")
        ELSE IF ws <= SellThreshold
        THEN TradeSignal("SELL", normal_confidence(ws),
                         "Weighted score indicates bearish signal")
        ELSE TradeSignal("HOLD", normal_confidence(ws),
                         "Weighted score suggests neutral market")

\* SignalAggregator.aggregate_signals
aggregate_signals(sentiment_data, quantum_data, ai_prediction, sw, qw, aw) ==
    LET ns   == normalize_value(sentiment_data)
        nq   == normalize_value(quantum_data)
        na   == normalize_value(ai_prediction)
        ws   == weighted_score(ns, nq, na, sw, qw, aw)
        veto == apply_veto_rules(ns, nq, na, ws)
    IN  IF veto.action # None
        THEN TradeSignal(veto.action, veto_confidence(ws), veto.reason)
        ELSE IF ws > BuyThreshold
        THEN TradeSignal("BUY", normal_confidence(ws),
                         "Weighted score indicates bullish signal")
        ELSE IF ws < SellThreshold
        THEN TradeSignal("SELL", normal_confidence(ws),
                         "Weighted score indicates bearish signal")
        ELSE TradeSignal("HOLD", normal_confidence(ws),
                         "Weighted score suggests neutral market")

\* Inputs of the aggregator model.
SentimentScores == {-30, -18, -16, 0, 16, 17, 30}
QuantumScores == {-30, -19, 0, 18, 19}
AiScores == {-30, -12, 0, 12, 13}
WeightValues == {-(WD \div 2), 0, WD \div 5, (3 * WD) \div 10, WD \div 2,
                 WD \div 2 + WeightTolerance, WD \div 2 + WeightTolerance + 1, WD}
Confidences == {-1, 0, SW \div 2, VetoConfidenceCap, SW, SW + 1, (3 * SW) \div 2}

NoAggCall == [op |-> None, sentiment_data |-> 0, quantum_data |-> 0,
              ai_prediction |-> 0, signal |-> TradeSignal("HOLD", 0, None)]

\* SignalAggregator(sentiment_weight, quantum_weight, ai_weight): the object exists
\* when the weights are accepted; otherwise ValueError was raised and none does
AggregatorInit ==
    \E sw \in WeightValues, qw \in WeightValues, aw \in WeightValues :
        /\ agg_constructed = WeightsAccepted(sw, qw, aw)
        /\ sentiment_weight = (IF WeightsAccepted(sw, qw, aw) THEN sw ELSE 0)
        /\ quantum_weight = (IF WeightsAccepted(sw, qw, aw) THEN qw ELSE 0)
        /\ ai_weight = (IF WeightsAccepted(sw, qw, aw) THEN aw ELSE 0)
        /\ agg_call = [NoAggCall EXCEPT !.op = "__init__", !.sentiment_data = sw,
                                        !.quantum_data = qw, !.ai_prediction = aw]

\* aggregator.aggregate_signals(s, q, a) on the aggregator that exists
AggregateSignals ==
    /\ agg_constructed
    /\ \E s \in SentimentScores, q \in QuantumScores, a \in AiScores :
          agg_call' = [op |-> "aggregate_signals", sentiment_data |-> s,
                       quantum_data |-> q, ai_prediction |-> a,
                       signal |-> aggregate_signals(s, q, a, sentiment_weight,
                                                    quantum_weight, ai_weight)]
    /\ UNCHANGED <<agg_constructed, sentiment_weight, quantum_weight, ai_weight>>
    /\ UNCHANGED <<traderVars, pmVars, riskVars, kernel, backtester, loop, analytics>>

\* TradeSignal(action, confidence) built directly by a caller
MakeTradeSignal ==
    /\ \E act \in {"BUY", "SELL", "HOLD"}, c \in Confidences :
          agg_call' = [NoAggCall EXCEPT !.op = "TradeSignal",
                                        !.signal = TradeSignal(act, c, None)]
    /\ UNCHANGED <<agg_constructed, sentiment_weight, quantum_weight, ai_weight>>
    /\ UNCHANGED <<traderVars, pmVars, riskVars, kernel, backtester, loop, analytics>>

---------------------------------------------------------------------------
(* decision_engine/paper_trader.py *)

\* A Trade record; the wall-clock timestamp is left out.
Trade(action, price, amount, fee, balance_after, holdings_after, reason) ==
    [action |-> action, price |-> price, amount |-> amount, fee |-> fee,
     balance_after |-> balance_after, holdings_after |-> holdings_after,
     reason |-> reason]

\* PaperTrader.get_portfolio_value
get_portfolio_value(bal, hold, current_price) == bal + hold * current_price

\* The fee at ten times the rate
calculate_fee_tenfold(trade_amount, fr) == (trade_amount * fr * 10) \div FD

\* PaperTrader._calculate_fee: trade_amount * fee_rate
calculate_fee(trade_amount, fr) == (trade_amount * fr) \div FD

\* PaperTrader._log_trade: append one Trade stamped with the balance and holdings
\* of the moment
log_trade(hist, action, price, amount, fee, reason, bal, hold) ==
    Append(hist, Trade(action, price, amount, fee, bal, hold, reason))

\* available_balance = self.balance * trade_percentage
available_balance(bal, tp) == (bal * tp) \div RD

\* asset_to_sell = self.holdings * trade_percentage
asset_to_sell(hold, tp) == (hold * tp) \div RD

\* The range check on trade_percentage that opens execute_order
TradePercentageValid(tp) == 0 <= tp /\ tp <= RD

\* The exact results of the call lie on the grids.
OrderRepresentable(bal, hold, fr, action, price, tp) ==
    \/ ~TradePercentageValid(tp)
    \/ action = "HOLD"
    \/ /\ action = "BUY"
       /\ Exact(bal * tp, RD)
       /\ Exact(available_balance(bal, tp) * fr, FD)
       /\ price # 0 =>
            Exact(available_balance(bal, tp)
                    - calculate_fee(available_balance(bal, tp), fr), price)
    \/ /\ action = "SELL"
       /\ Exact(hold * tp, RD)
       /\ Exact(asset_to_sell(hold, tp) * price * fr, FD)

\* The BUY branch with the fee left in the balance: only what buys the asset is taken
execute_buy_fee_kept(bal, hold, hist, fr, mta, signal, price, tp) ==
    LET available == available_balance(bal, tp)
        fee       == calculate_fee(available, fr)
        amount_after_fee == available - fee
    IN  IF available < mta
        THEN [balance |-> bal, holdings |-> hold, ret |-> None,
              trade_history |-> log_trade(hist, "HOLD", price, 0, 0,
                                          "Insufficient balance for BUY", bal, hold)]
        ELSE IF price = 0
        THEN [balance |-> bal, holdings |-> hold, ret |-> "ZeroDivisionError",
              trade_history |-> hist]
        ELSE LET asset_amount == amount_after_fee \div price
                 bal2  == bal - amount_after_fee
                 hold2 == hold + asset_amount
             IN  [balance |-> bal2, holdings |-> hold2, ret |-> "Trade",
                  trade_history |-> log_trade(hist, "BUY", price, asset_amount, fee,
                                              signal.reason, bal2, hold2)]

\* The BUY branch without the minimum on the amount spent
execute_buy_without_minimum(bal, hold, hist, fr, mta, signal, price, tp) ==
    LET available == available_balance(bal, tp)
        fee       == calculate_fee(available, fr)
        amount_after_fee == available - fee
    IN  IF price = 0
        THEN [balance |-> bal, holdings |-> hold, ret |-> "ZeroDivisionError",
              trade_history |-> hist]
        ELSE LET asset_amount == amount_after_fee \div price
                 bal2  == bal - available
                 hold2 == hold + asset_amount
             IN  [balance |-> bal2, holdings |-> hold2, ret |-> "Trade",
                  trade_history |-> log_trade(hist, "BUY", price, asset_amount, fee,
                                              signal.reason, bal2, hold2)]

\* The BUY branch of execute_order
execute_buy(bal, hold, hist, fr, mta, signal, price, tp) ==
    LET available == available_balance(bal, tp)
        fee       == calculate_fee(available, fr)
        amount_after_fee == available - fee
    IN  IF available < mta
        THEN [balance |-> bal, holdings |-> hold, ret |-> None,
              trade_history |-> log_trade(hist, "HOLD", price, 0, 0,
                                          "Insufficient balance for BUY", bal, hold)]
        ELSE IF price = 0
        THEN [balance |-> bal, holdings |-> hold, ret |-> "ZeroDivisionError",
              trade_history |-> hist]
        ELSE LET asset_amount == amount_after_fee \div price
                 bal2  == bal - available
                 hold2 == hold + asset_amount
             IN  [balance |-> bal2, holdings |-> hold2, ret |-> "Trade",
                  trade_history |-> log_trade(hist, "BUY", price, asset_amount, fee,
                                              signal.reason, bal2, hold2)]

\* The SELL branch without the minimum on the sale proceeds
execute_sell_below_minimum(bal, hold, hist, fr, mta, signal, price, tp) ==
    LET to_sell       == asset_to_sell(hold, tp)
        sale_proceeds == to_sell * price
        fee           == calculate_fee(sale_proceeds, fr)
        proceeds_after_fee == sale_proceeds - fee
    IN  IF to_sell <= 0
        THEN [balance |-> bal, holdings |-> hold, ret |-> None,
              trade_history |-> log_trade(hist, "HOLD", price, 0, 0,
                                          "No assets to sell", bal, hold)]
        ELSE LET bal2  == bal + proceeds_after_fee
                 hold2 == hold - to_sell
             IN  [balance |-> bal2, holdings |-> hold2, ret |-> "Trade",
                  trade_history |-> log_trade(hist, "SELL", price, to_sell, fee,
                                              signal.reason, bal2, hold2)]

\* The SELL branch of execute_order
execute_sell(bal, hold, hist, fr, mta, signal, price, tp) ==
    LET to_sell       == asset_to_sell(hold, tp)
        sale_proceeds == to_sell * price
        fee           == calculate_fee(sale_proceeds, fr)
        proceeds_after_fee == sale_proceeds - fee
    IN  IF to_sell <= 0
        THEN [balance |-> bal, holdings |-> hold, ret |-> None,
              trade_history |-> log_trade(hist, "HOLD", price, 0, 0,
                                          "No assets to sell", bal, hold)]
        ELSE IF sale_proceeds < mta
        THEN [balance |-> bal, holdings |-> hold, ret |-> None,
              trade_history |-> log_trade(hist, "HOLD", price, 0, 0,
                                          "Sale amount too small", bal, hold)]
        ELSE LET bal2  == bal + proceeds_after_fee
                 hold2 == hold - to_sell
             IN  [balance |-> bal2, holdings |-> hold2, ret |-> "Trade",
                  trade_history |-> log_trade(hist, "SELL", price, to_sell, fee,
                                              signal.reason, bal2, hold2)]

\* The HOLD branch that returns without logging
execute_hold_unlogged(bal, hold, hist, signal, price) ==
    [balance |-> bal, holdings |-> hold, ret |-> None, trade_history |-> hist]

\* The HOLD branch of execute_order
execute_hold(bal, hold, hist, signal, price) ==
    [balance |-> bal, holdings |-> hold, ret |-> None,
     trade_history |-> log_trade(hist, "HOLD", price, 0, 0, signal.reason, bal, hold)]

\* PaperTrader.execute_order: the trader after the call, and what the call returned
\* ("Trade", None) or raised
execute_order(bal, hold, hist, fr, mta, signal, price, tp) ==
    IF ~TradePercentageValid(tp)
    THEN [balance |-> bal, holdings |-> hold, ret |-> "ValueError",
          trade_history |-> hist]
    ELSE IF signal.action = "HOLD"
    THEN execute_hold(bal, hold, hist, signal, price)
    ELSE IF signal.action = "BUY"
    THEN execute_buy(bal, hold, hist, fr, mta, signal, price, tp)
    ELSE execute_sell(bal, hold, hist, fr, mta, signal, price, tp)

\* The last call made on the paper trader: what it returned ("Trade", None) or
\* raised, and the signal's action, the current_price and the trade_percentage
\* handed to an execute_order
TraderCall(op, outcome, action, price, tp) ==
    [op |-> op, outcome |-> outcome, action |-> action, current_price |-> price,
     trade_percentage |-> tp]

\* Inputs of the paper-trader model.
MaxTrades == 3
VirtualBalances == {-(100 * Q), 0, 100 * Q}
FeeRates == {0, FD \div 10}
MinTradeAmounts == {0, 10 * Q}
Prices == {0, 2, 4}
TradePercentages == {0, 5, 10, 15}
Actions == {"BUY", "SELL", "HOLD"}

TraderInit ==
    \E vb \in VirtualBalances, fr \in FeeRates, mta \in MinTradeAmounts :
        /\ initial_balance = vb
        /\ balance = vb
        /\ holdings = 0
        /\ fee_rate = fr
        /\ min_trade_amount = mta
        /\ trade_history = << >>
        /\ ret = TraderCall("__init__", None, None, 0, 0)

\* The call execute_order(TradeSignal(act, 0.5), price, tp) on the paper trader
OrderCall(act, price, tp) ==
    /\ OrderRepresentable(balance, holdings, fee_rate, act, price, tp)
    /\ \E after \in {execute_order(balance, holdings, trade_history, fee_rate,
                                    min_trade_amount,
                                    TradeSignal(act, SW \div 2, "signal"),
                                    price, tp)} :
           /\ balance' = after.balance
           /\ holdings' = after.holdings
           /\ trade_history' = after.trade_history
           /\ ret' = TraderCall("execute_order", after.ret, act, price, tp)

\* paper_trader.execute_order(signal, current_price, trade_percentage)
ExecuteOrder ==
    /\ ~kernel.active
    /\ Len(trade_history) < MaxTrades
    /\ \E act \in Actions, price \in Prices, tp \in TradePercentages :
          OrderCall(act, price, tp)
    /\ UNCHANGED <<initial_balance, fee_rate, min_trade_amount>>
    /\ UNCHANGED <<aggVars, pmVars, riskVars, kernel, backtester, loop, analytics>>

\* execute_order with the default trade_percentage = 1.0: all of the balance
\* on a BUY, all of the holdings on a SELL
AllInOrder ==
    /\ ~kernel.active
    /\ Len(trade_history) < MaxTrades
    /\ \E act \in Actions, price \in Prices : OrderCall(act, price, RD)
    /\ UNCHANGED <<initial_balance, fee_rate, min_trade_amount>>
    /\ UNCHANGED <<aggVars, pmVars, riskVars, kernel, backtester, loop, analytics>>

\* PaperTrader(virtual_balance) with the default fee_rate = 0.001 and
\* min_trade_amount = 10.0, as the scenario test builds it
DefaultFeeRate == FD \div 1000
ScenarioBalances == {1000 * Q, 10000 * Q}
ScenarioPrices == {100, 120}
ScenarioTradePercentages == {5, 10}

ScenarioInit ==
    \E vb \in ScenarioBalances :
        /\ initial_balance = vb
        /\ balance = vb
        /\ holdings = 0
        /\ fee_rate = DefaultFeeRate
        /\ min_trade_amount = 10 * Q
        /\ trade_history = << >>
        /\ ret = TraderCall("__init__", None, None, 0, 0)

\* execute_order at the prices and percentages of the scenario
ScenarioOrder ==
    /\ ~kernel.active
    /\ Len(trade_history) < MaxTrades
    /\ \E act \in Actions, price \in ScenarioPrices, tp \in ScenarioTradePercentages :
          OrderCall(act, price, tp)
    /\ UNCHANGED <<initial_balance, fee_rate, min_trade_amount>>
    /\ UNCHANGED <<aggVars, pmVars, riskVars, kernel, backtester, loop, analytics>>

\* paper_trader.reset(new_balance); new_balance is None when given is FALSE
reset(given, new_balance) ==
    /\ initial_balance' = (IF given THEN new_balance ELSE initial_balance)
    /\ balance' = (IF given THEN new_balance ELSE initial_balance)
    /\ holdings' = 0
    /\ trade_history' = << >>

Reset ==
    /\ ~kernel.active
    /\ \/ reset(FALSE, 0)
       \/ \E nb \in VirtualBalances : reset(TRUE, nb)
    /\ ret' = TraderCall("reset", None, None, 0, 0)
    /\ UNCHANGED <<fee_rate, min_trade_amount>>
    /\ UNCHANGED <<aggVars, pmVars, riskVars, kernel, backtester, loop, analytics>>

---------------------------------------------------------------------------
(* portfolio_management/transaction.py, portfolio.py *)

\* A Transaction; id and timestamp are left out. total_cost is a field the
\* caller fills in: the dataclass computes nothing.
Transaction(symbol, side, amount, price, fee, total_cost) ==
    [symbol |-> symbol, side |-> side, amount |-> amount, price |-> price,
     fee |-> fee, total_cost |-> total_cost]

\* self.positions.get(symbol, 0.0)
position_of(pos, symbol) == IF symbol \in DOMAIN pos THEN pos[symbol] ELSE 0

\* self.positions[symbol] = quantity
set_position(pos, symbol, quantity) ==
    [s \in (DOMAIN pos) \cup {symbol} |-> IF s = symbol THEN quantity ELSE pos[s]]

\* del self.positions[symbol]
del_position(pos, symbol) == [s \in (DOMAIN pos) \ {symbol} |-> pos[s]]

\* No remainder counts as zero: the entry of a sold-out position stays
NeverEffectivelyZero(quantity) == FALSE

\* The entry of a position falls when abs(quantity) < 1e-9: zero, on the grid
EffectivelyZero(quantity) == Abs(quantity) < 1

\* The three parameter checks that open execute_trade
TransactionValid(tx) == tx.amount > 0 /\ tx.price > 0 /\ tx.fee >= 0

\* The buy branch of execute_trade
trade_buy(cash, pos, tx) ==
    IF tx.total_cost > cash
    THEN [cash_balance |-> cash, positions |-> pos,
          raised |-> "InsufficientFundsError"]
    ELSE [cash_balance |-> cash - tx.total_cost,
          positions |-> set_position(pos, tx.symbol,
                                     position_of(pos, tx.symbol) + tx.amount),
          raised |-> None]

\* The sell branch that sells what is held before it raises
trade_sell_partial_fill(cash, pos, tx) ==
    LET current_position == position_of(pos, tx.symbol)
        remaining        == current_position - tx.amount
    IN  IF tx.amount > current_position
        THEN [cash_balance |-> cash, positions |-> del_position(pos, tx.symbol),
              raised |-> "InsufficientHoldingsError"]
        ELSE [cash_balance |-> cash + tx.total_cost,
              positions |-> IF EffectivelyZero(remaining)
                            THEN del_position(pos, tx.symbol)
                            ELSE set_position(pos, tx.symbol, remaining),
              raised |-> None]

\* The sell branch of execute_trade
trade_sell(cash, pos, tx) ==
    LET current_position == position_of(pos, tx.symbol)
        remaining        == current_position - tx.amount
    IN  IF tx.amount > current_position
        THEN [cash_balance |-> cash, positions |-> pos,
              raised |-> "InsufficientHoldingsError"]
        ELSE [cash_balance |-> cash + tx.total_cost,
              positions |-> IF EffectivelyZero(remaining)
                            THEN del_position(pos, tx.symbol)
                            ELSE set_position(pos, tx.symbol, remaining),
              raised |-> None]

\* PortfolioManager.execute_trade: the ledger after the call and what it raised
execute_trade(cash, pos, tx) ==
    IF ~TransactionValid(tx)
    THEN [cash_balance |-> cash, positions |-> pos, raised |-> "ValueError"]
    ELSE IF tx.side = "buy"  THEN trade_buy(cash, pos, tx)
    ELSE IF tx.side = "sell" THEN trade_sell(cash, pos, tx)
    ELSE [cash_balance |-> cash, positions |-> pos, raised |-> "ValueError"]

\* PortfolioManager.deposit
deposit(cash, amount) ==
    IF amount <= 0
    THEN [cash_balance |-> cash, raised |-> "ValueError"]
    ELSE [cash_balance |-> cash + amount, raised |-> None]

\* PortfolioManager.withdraw
withdraw(cash, amount) ==
    IF amount <= 0
    THEN [cash_balance |-> cash, raised |-> "ValueError"]
    ELSE IF amount > cash
    THEN [cash_balance |-> cash, raised |-> "InsufficientFundsError"]
    ELSE [cash_balance |-> cash - amount, raised |-> None]

\* current_prices.get(symbol, 0.0)
price_of(prices, symbol) == IF symbol \in DOMAIN prices THEN prices[symbol] ELSE 0

RECURSIVE holdings_value(_, _, _)
holdings_value(pos, prices, symbols) ==
    IF symbols = {}
    THEN 0
    ELSE LET s == CHOOSE x \in symbols : TRUE
         IN  pos[s] * price_of(prices, s) + holdings_value(pos, prices, symbols \ {s})

\* PortfolioManager.get_total_value
get_total_value(cash, pos, prices) == cash + holdings_value(pos, prices, DOMAIN pos)

---------------------------------------------------------------------------
(* portfolio_management/risk_engine.py *)

NoPrices == [s \in {} |-> 0]

\* The drawdown rule, as both methods compute it:
\* (initial_balance - current_value) / initial_balance > max_drawdown_pct
DrawdownExceeded(rib, mdd, current_value) ==
    (rib - current_value) * PD > mdd * rib

\* The position-size rule rejecting a trade exactly at the limit
PositionTooLargeAtLimit(mps, trade_value, total_value) ==
    trade_value * PD >= mps * total_value

\* The position-size rule: trade_value / total_portfolio_value > max_position_size_pct
PositionTooLarge(mps, trade_value, total_value) ==
    trade_value * PD > mps * total_value

\* check_trade_risk without the drawdown rule
check_trade_risk_without_drawdown(cash, pos, mps, mdd, rib, side, amount, price, prices_given, prices) ==
    LET total_value == get_total_value(cash, pos, prices)
    IN  IF side = "buy"
        THEN /\ prices_given
             /\ total_value > 0
             /\ ~PositionTooLarge(mps, amount * price, total_value)
        ELSE TRUE

\* check_trade_risk with the position-size rule applied to every side
check_trade_risk_sizing_every_side(cash, pos, mps, mdd, rib, side, amount, price, prices_given, prices) ==
    LET total_value == get_total_value(cash, pos, prices)
        current_value == get_total_value(cash, pos,
                                         IF prices_given THEN prices ELSE NoPrices)
    IN  /\ prices_given
        /\ total_value > 0
        /\ ~PositionTooLarge(mps, amount * price, total_value)
        /\ (rib > 0 => ~DrawdownExceeded(rib, mdd, current_value))

\* RiskEngine.check_trade_risk; prices_given is FALSE for current_prices = None
check_trade_risk(cash, pos, mps, mdd, rib, side, amount, price, prices_given, prices) ==
    LET total_value == get_total_value(cash, pos, prices)
        sized == IF side = "buy"
                 THEN /\ prices_given
                      /\ total_value > 0
                      /\ ~PositionTooLarge(mps, amount * price, total_value)
                 ELSE TRUE
        current_value == get_total_value(cash, pos,
                                         IF prices_given THEN prices ELSE NoPrices)
    IN  /\ sized
        /\ (rib > 0 => ~DrawdownExceeded(rib, mdd, current_value))

\* RiskEngine.check_max_drawdown
check_max_drawdown(cash, pos, mdd, rib, prices_given, prices) ==
    IF rib <= 0
    THEN TRUE
    ELSE ~DrawdownExceeded(rib, mdd, get_total_value(cash, pos,
                                         IF prices_given THEN prices ELSE NoPrices))

\* Inputs of the ledger model.
MaxLedgerCalls == 3
Symbols == {"BTC", "ETH"}
Sides == {"buy", "sell", "short"}
InitialCash == {-(50 * Q), 0, 200 * Q}
CashAmounts == {-(25 * Q), 0, 40 * Q, 50 * Q}
TxAmounts == {Q, 2 * Q}
TxFees == {Q, 60 * Q}
PositionLimits == {25}
DrawdownLimits == {20}
Baselines == {0, 200 * Q, 400 * Q}
PriceMaps == {NoPrices, [s \in {"BTC"} |-> 50], [s \in Symbols |-> 50],
              [s \in Symbols |-> IF s = "BTC" THEN 10 ELSE 50]}

\* total_cost as the docstring of Transaction defines it
documented_total_cost(side, amount, price, fee) ==
    IF side = "sell" THEN price * amount - fee ELSE price * amount + fee

\* Transactions whose parameters pass the checks of execute_trade, with total_cost
\* filled in as documented (1) or left at 0 (0), and some whose parameters do not.
Transactions ==
    { Transaction(sym, side, amount, 50, fee, 1) :
        sym \in Symbols, side \in {"buy", "sell"}, amount \in TxAmounts,
        fee \in TxFees }
    \cup
    { Transaction("BTC", side, Q, 50, Q, 0) : side \in Sides }
    \cup
    { Transaction("BTC", side, bad[1], bad[2], bad[3], 1) :
        side \in {"buy", "sell"},
        bad \in {<<0, 50, Q>>, <<Q, 0, Q>>, <<Q, 50, -Q>>, <<10 * Q, 0, Q>>} }

NoTransaction == Transaction("BTC", "buy", 0, 0, 0, 0)

LedgerCall(op, n, tx, prices_given, prices, raised, result) ==
    [op |-> op, n |-> n, tx |-> tx, prices_given |-> prices_given,
     prices |-> prices, raised |-> raised, result |-> result]

\* PortfolioManager(initial_cash) and RiskEngine(max_position_size_pct, max_drawdown_pct)
LedgerInit ==
    /\ cash_balance \in InitialCash
    /\ positions = NoPrices
    /\ max_position_size_pct \in PositionLimits
    /\ max_drawdown_pct \in DrawdownLimits
    /\ risk_initial_balance = 0
    /\ ledger_call = LedgerCall("__init__", 0, NoTransaction, FALSE, NoPrices, None, TRUE)

\* portfolio.deposit(amount)
Deposit ==
    /\ ledger_call.n < MaxLedgerCalls
    /\ \E amount \in CashAmounts :
          \E after \in {deposit(cash_balance, amount)} :
              /\ cash_balance' = after.cash_balance
              /\ ledger_call' = LedgerCall("deposit", ledger_call.n + 1,
                                    [NoTransaction EXCEPT !.amount = amount],
                                    FALSE, NoPrices, after.raised, TRUE)
    /\ UNCHANGED <<positions, max_position_size_pct, max_drawdown_pct,
                   risk_initial_balance>>
    /\ UNCHANGED <<aggVars, traderVars, kernel, backtester, loop, analytics>>

\* portfolio.withdraw(amount)
Withdraw ==
    /\ ledger_call.n < MaxLedgerCalls
    /\ \E amount \in CashAmounts :
          \E after \in {withdraw(cash_balance, amount)} :
              /\ cash_balance' = after.cash_balance
              /\ ledger_call' = LedgerCall("withdraw", ledger_call.n + 1,
                                    [NoTransaction EXCEPT !.amount = amount],
                                    FALSE, NoPrices, after.raised, TRUE)
    /\ UNCHANGED <<positions, max_position_size_pct, max_drawdown_pct,
                   risk_initial_balance>>
    /\ UNCHANGED <<aggVars, traderVars, kernel, backtester, loop, analytics>>

\* portfolio.execute_trade(transaction); the caller fills total_cost in as
\* documented (tc = 1) or with nothing (tc = 0)
ExecuteTrade ==
    /\ ledger_call.n < MaxLedgerCalls
    /\ \E t \in Transactions :
          \E tx \in {[t EXCEPT !.total_cost =
                        IF t.total_cost = 1
                        THEN documented_total_cost(t.side, t.amount, t.price, t.fee)
                        ELSE 0]} :
          \E after \in {execute_trade(cash_balance, positions, tx)} :
              /\ cash_balance' = after.cash_balance
              /\ positions' = after.positions
              /\ ledger_call' = LedgerCall("execute_trade", ledger_call.n + 1, tx,
                                           FALSE, NoPrices, after.raised, TRUE)
    /\ UNCHANGED <<max_position_size_pct, max_drawdown_pct, risk_initial_balance>>
    /\ UNCHANGED <<aggVars, traderVars, kernel, backtester, loop, analytics>>

\* risk_engine.set_initial_balance(balance)
SetInitialBalance ==
    /\ \E b \in Baselines :
          /\ risk_initial_balance' = b
          /\ ledger_call' = LedgerCall("set_initial_balance", ledger_call.n,
                                [NoTransaction EXCEPT !.amount = b],
                                FALSE, NoPrices, None, TRUE)
    /\ UNCHANGED <<cash_balance, positions, max_position_size_pct, max_drawdown_pct>>
    /\ UNCHANGED <<aggVars, traderVars, kernel, backtester, loop, analytics>>

\* risk_engine.check_trade_risk(portfolio, symbol, side, amount, price, current_prices)
CheckTradeRisk ==
    /\ \E sym \in {"BTC"}, side \in {"buy", "sell"}, amount \in TxAmounts,
          price \in {50}, given \in BOOLEAN, pm \in PriceMaps :
          /\ ~given => pm = NoPrices
          /\ ledger_call' = LedgerCall("check_trade_risk", ledger_call.n,
                                Transaction(sym, side, amount, price, 0, 0), given, pm, None,
                                check_trade_risk(cash_balance, positions,
                                    max_position_size_pct, max_drawdown_pct,
                                    risk_initial_balance, side, amount, price, given, pm))
    /\ UNCHANGED <<cash_balance, positions, max_position_size_pct, max_drawdown_pct,
                   risk_initial_balance>>
    /\ UNCHANGED <<aggVars, traderVars, kernel, backtester, loop, analytics>>

\* risk_engine.check_max_drawdown(portfolio, current_prices)
CheckMaxDrawdown ==
    /\ \E given \in BOOLEAN, pm \in PriceMaps :
          /\ ~given => pm = NoPrices
          /\ ledger_call' = LedgerCall("check_max_drawdown", ledger_call.n,
                                NoTransaction, given, pm, None,
                                check_max_drawdown(cash_balance, positions,
                                    max_drawdown_pct, risk_initial_balance, given, pm))
    /\ UNCHANGED <<cash_balance, positions, max_position_size_pct, max_drawdown_pct,
                   risk_initial_balance>>
    /\ UNCHANGED <<aggVars, traderVars, kernel, backtester, loop, analytics>>

---------------------------------------------------------------------------
(* decision_engine/core.py *)

\* An optional float: << >> is None, <<v>> is the value v.
\* The outcome of calling a fetcher: << >> when it raised, <<v>> when it returned v.
Some(v) == <<v>>
Nothing == << >>

DefaultScore == 0           \* 0.0, the score used when a fetcher is absent or fails
DefaultPrice == 1           \* 1.0, the price used when none is known
DefaultMinTradeAmount == 10 * Q     \* PaperTrader's default, which BotKernel keeps

\* BotKernel._fetch_sentiment_data, _fetch_quantum_data, _fetch_ai_prediction:
\* the value used by the cycle and the cache after the call
fetch_score(configured, outcome, latest) ==
    IF ~configured
    THEN [value |-> DefaultScore, latest |-> latest]
    ELSE IF outcome # Nothing
    THEN [value |-> outcome[1], latest |-> Some(outcome[1])]
    ELSE [value |-> DefaultScore, latest |-> latest]

\* The price an invalid fetch falls back to: the cached one, or 1.0
fallback_price(latest) == IF latest # Nothing THEN latest[1] ELSE DefaultPrice

\* _fetch_current_price caching whatever the fetcher returned
fetch_current_price_caching_invalid(configured, outcome, latest) ==
    IF ~configured
    THEN [value |-> DefaultPrice, latest |-> latest]
    ELSE IF outcome # Nothing
    THEN [value |-> IF outcome[1] <= 0 THEN fallback_price(latest) ELSE outcome[1],
          latest |-> Some(outcome[1])]
    ELSE [value |-> fallback_price(latest), latest |-> latest]

\* BotKernel._fetch_current_price
fetch_current_price(configured, outcome, latest) ==
    IF ~configured
    THEN [value |-> DefaultPrice, latest |-> latest]
    ELSE IF outcome # Nothing
    THEN IF outcome[1] <= 0
         THEN [value |-> fallback_price(latest), latest |-> latest]
         ELSE [value |-> outcome[1], latest |-> Some(outcome[1])]
    ELSE [value |-> fallback_price(latest), latest |-> latest]

\* PaperTrader.get_profit_loss; the percentage is kept as the fraction
\* <<numerator, denominator>>. It divides by initial_balance.
get_profit_loss(bal, hold, ib, current_price) ==
    LET current_value == get_portfolio_value(bal, hold, current_price)
        absolute_pl   == current_value - ib
    IN  [absolute |-> absolute_pl, percentage |-> <<absolute_pl * 100, ib>>,
         current_value |-> current_value, initial_value |-> ib]

NoResult == [raised |-> None, step |-> 0, sentiment |-> 0, quantum |-> 0, ai |-> 0,
             price |-> 0, signal |-> Nothing, trade |-> Nothing,
             portfolio_value |-> 0, profit_loss |-> Nothing]

\* What the four fetchers did in the last step; a fetcher that is absent is not called
NoOutcomes == [sentiment |-> Nothing, quantum |-> Nothing, ai |-> Nothing,
               price |-> Nothing]

\* Inputs of the kernel model.
MaxSteps == 2
FetcherConfigs ==
    { [sentiment |-> TRUE,  quantum |-> TRUE,  ai |-> TRUE,  price |-> TRUE],
      [sentiment |-> FALSE, quantum |-> TRUE,  ai |-> TRUE,  price |-> FALSE],
      [sentiment |-> TRUE,  quantum |-> FALSE, ai |-> FALSE, price |-> TRUE] }
KernelWeights == {<<(3 * WD) \div 10, WD \div 5, WD \div 2>>, <<0, WD, 0>>}
KernelBalances == {0, 100 * Q}
KernelFeeRates == {FD \div 10}
KernelTradePercentages == {5, 10, 15}
SentimentOutcomes == {Nothing, Some(-18), Some(17)}
QuantumOutcomes == {Nothing, Some(19)}
AiOutcomes == {Nothing, Some(13)}
PriceOutcomes == {Nothing, Some(0), Some(2), Some(4)}

\* BotKernel(...): the aggregator, the paper trader, the fetchers, the caches
KernelInit ==
    /\ \E w \in KernelWeights :
          /\ WeightsAccepted(w[1], w[2], w[3])
          /\ agg_constructed = TRUE
          /\ sentiment_weight = w[1]
          /\ quantum_weight = w[2]
          /\ ai_weight = w[3]
    /\ agg_call = NoAggCall
    /\ \E vb \in KernelBalances :
          /\ initial_balance = vb
          /\ balance = vb
    /\ holdings = 0
    /\ fee_rate \in KernelFeeRates
    /\ min_trade_amount = DefaultMinTradeAmount
    /\ trade_history = << >>
    /\ ret = TraderCall("__init__", None, None, 0, 0)
    /\ \E f \in FetcherConfigs, tp \in KernelTradePercentages :
          kernel = [active |-> TRUE, fetchers |-> f, trade_percentage |-> tp, step_count |-> 0,
                    latest_sentiment |-> Nothing, latest_quantum |-> Nothing,
                    latest_ai |-> Nothing, latest_price |-> Nothing,
                    latest_signal |-> Nothing, outcomes |-> NoOutcomes,
                    current_price |-> 0, result |-> NoResult]

\* BotKernel.step with the given outcomes of the four fetches
step(so, qo, ao, po) ==
    LET count     == kernel.step_count + 1
        sentiment == fetch_score(kernel.fetchers.sentiment, so, kernel.latest_sentiment)
        quantum   == fetch_score(kernel.fetchers.quantum, qo, kernel.latest_quantum)
        ai        == fetch_score(kernel.fetchers.ai, ao, kernel.latest_ai)
        price     == fetch_current_price(kernel.fetchers.price, po, kernel.latest_price)
    IN  \E signal \in {aggregate_signals(sentiment.value, quantum.value, ai.value,
                                        sentiment_weight, quantum_weight, ai_weight)} :
        \E after \in {execute_order(balance, holdings, trade_history, fee_rate,
                                    min_trade_amount, signal, price.value,
                                    kernel.trade_percentage)} :
        \E fetched \in {[kernel EXCEPT !.step_count = count,
                                       !.latest_sentiment = sentiment.latest,
                                       !.latest_quantum = quantum.latest,
                                       !.latest_ai = ai.latest,
                                       !.latest_price = price.latest,
                                       !.latest_signal = Some(signal),
                                       !.outcomes = [sentiment |-> so, quantum |-> qo,
                                                     ai |-> ao, price |-> po],
                                       !.current_price = price.value]} :
        /\ OrderRepresentable(balance, holdings, fee_rate, signal.action, price.value,
                              kernel.trade_percentage)
        /\ balance' = after.balance
        /\ holdings' = after.holdings
        /\ trade_history' = after.trade_history
        /\ ret' = TraderCall("execute_order", after.ret, signal.action,
                               price.value, kernel.trade_percentage)
        /\ kernel' =
             IF after.ret \notin {"Trade", None}
             THEN \* execute_order raised, and step with it
                  [fetched EXCEPT !.result = [NoResult EXCEPT !.raised = after.ret,
                                                              !.step = count]]
             ELSE IF initial_balance = 0
             THEN \* get_profit_loss divides by initial_balance
                  [fetched EXCEPT !.result = [NoResult EXCEPT
                                                !.raised = "ZeroDivisionError",
                                                !.step = count]]
             ELSE [fetched EXCEPT !.result =
                     [raised |-> None, step |-> count, sentiment |-> sentiment.value,
                      quantum |-> quantum.value, ai |-> ai.value,
                      price |-> price.value, signal |-> Some(signal),
                      trade |-> IF after.ret = "Trade"
                                THEN Some(after.trade_history[Len(after.trade_history)])
                                ELSE Nothing,
                      portfolio_value |-> get_portfolio_value(after.balance,
                                                after.holdings, price.value),
                      profit_loss |-> Some(get_profit_loss(after.balance, after.holdings,
                                                initial_balance, price.value))]]

\* kernel.step()
Step ==
    /\ kernel.active
    /\ kernel.step_count < MaxSteps
    /\ \E so \in SentimentOutcomes, qo \in QuantumOutcomes, ao \in AiOutcomes,
          po \in PriceOutcomes :
          /\ ~kernel.fetchers.sentiment => so = Nothing
          /\ ~kernel.fetchers.quantum => qo = Nothing
          /\ ~kernel.fetchers.ai => ao = Nothing
          /\ ~kernel.fetchers.price => po = Nothing
          /\ step(so, qo, ao, po)
    /\ UNCHANGED <<agg_constructed, sentiment_weight, quantum_weight, ai_weight,
                   agg_call, initial_balance, fee_rate, min_trade_amount>>
    /\ UNCHANGED <<pmVars, riskVars, backtester, loop, analytics>>

\* BotKernel.get_status: the counter and the caches, and the portfolio valued at
\* the cached price, or at 0.0 when no price is cached. get_profit_loss divides
\* by initial_balance. The trade summary is not modelled.
get_status ==
    LET current_price == IF kernel.latest_price # Nothing THEN kernel.latest_price[1] ELSE 0
    IN  IF initial_balance = 0
        THEN [raised |-> "ZeroDivisionError"]
        ELSE [raised           |-> None,
              step_count       |-> kernel.step_count,
              latest_sentiment |-> kernel.latest_sentiment,
              latest_quantum   |-> kernel.latest_quantum,
              latest_ai        |-> kernel.latest_ai,
              latest_price     |-> kernel.latest_price,
              latest_signal    |-> kernel.latest_signal,
              portfolio_value  |-> get_portfolio_value(balance, holdings, current_price),
              profit_loss      |-> Some(get_profit_loss(balance, holdings, initial_balance,
                                                        current_price))]

\* kernel.reset(new_balance); new_balance is None when given is FALSE
KernelReset ==
    /\ kernel.active
    /\ \/ reset(FALSE, 0)
       \/ \E nb \in KernelBalances : reset(TRUE, nb)
    /\ ret' = TraderCall("reset", None, None, 0, 0)
    /\ kernel' = [kernel EXCEPT !.step_count = 0,
                                !.latest_sentiment = Nothing,
                                !.latest_quantum = Nothing, !.latest_ai = Nothing,
                                !.latest_price = Nothing, !.latest_signal = Nothing,
                                !.outcomes = NoOutcomes, !.current_price = 0,
                                !.result = NoResult]
    /\ UNCHANGED <<aggVars, fee_rate, min_trade_amount>>
    /\ UNCHANGED <<pmVars, riskVars, backtester, loop, analytics>>

---------------------------------------------------------------------------
(* The Execution Loop around BotKernel.step *)

\* The loop is started on a kernel: RUNNING, at the check that opens a cycle;
\* stop_at is where the loop was when the stop was requested
LoopInit == loop = [state |-> "RUNNING", pc |-> "check", cycle |-> 0, stop_at |-> None]

\* A stop request that ends the loop at once, whatever the loop is doing
RequestStopAbruptly ==
    /\ loop.state = "RUNNING"
    /\ loop' = [loop EXCEPT !.state = "STOPPED", !.pc = "exited", !.stop_at = loop.pc]
    /\ UNCHANGED <<aggVars, traderVars, pmVars, riskVars, kernel, backtester, analytics>>

\* A stop is requested, by another task, at any moment: the flag is raised
RequestStop ==
    /\ loop.state = "RUNNING"
    /\ loop' = [loop EXCEPT !.state = "STOPPING", !.stop_at = loop.pc]
    /\ UNCHANGED <<aggVars, traderVars, pmVars, riskVars, kernel, backtester, analytics>>

\* The check of the stop flag, once per cycle: the loop exits or begins a cycle
LoopCheck ==
    /\ loop.pc = "check"
    /\ loop.state # "STOPPED"
    /\ IF loop.state = "STOPPING"
       THEN loop' = [loop EXCEPT !.state = "STOPPED", !.pc = "exited"]
       ELSE /\ loop.cycle < MaxSteps
            /\ loop' = [loop EXCEPT !.pc = "cycle", !.cycle = @ + 1]
    /\ UNCHANGED <<aggVars, traderVars, pmVars, riskVars, kernel, backtester, analytics>>

\* The cycle in flight: one call of kernel.step()
LoopStep ==
    /\ loop.pc = "cycle"
    /\ kernel.step_count = loop.cycle - 1
    /\ Step

\* The cycle is over: the loop waits for the poll interval, at the check
LoopSleep ==
    /\ loop.pc = "cycle"
    /\ kernel.step_count = loop.cycle
    /\ loop' = [loop EXCEPT !.pc = "check"]
    /\ UNCHANGED <<aggVars, traderVars, pmVars, riskVars, kernel, backtester, analytics>>

---------------------------------------------------------------------------
(* backtesting/engine.py and example_strategies.py *)

MaxRuns == 3

\* Closes are whole numbers; a moving average is kept in sixths, so that the
\* averages over one, two and three closes are exact.
SmaD == 2 * 3

\* seq[-n:]
LastN(seq, n) == SubSeq(seq, Max(1, Len(seq) - n + 1), Len(seq))

RECURSIVE sum(_)
sum(seq) == IF seq = << >> THEN 0 ELSE Head(seq) + sum(Tail(seq))

\* sma_crossover(short_window, long_window): a new closure, its three lists empty
sma_crossover(short_window, long_window) ==
    [short_window |-> short_window, long_window |-> long_window,
     sma_short |-> << >>, sma_long |-> << >>, prices |-> << >>]

\* strategy_logic(row) of sma_crossover: the signal, and the closure afterwards
strategy_logic(closure, row) ==
    LET prices == Append(closure.prices, row.close)
        enough == Len(prices) >= closure.long_window
        short_sma_val == (sum(LastN(prices, closure.short_window)) * SmaD)
                             \div closure.short_window
        long_sma_val  == (sum(LastN(prices, closure.long_window)) * SmaD)
                             \div closure.long_window
        sma_short == IF enough THEN Append(closure.sma_short, short_sma_val)
                               ELSE closure.sma_short
        sma_long  == IF enough THEN Append(closure.sma_long, long_sma_val)
                               ELSE closure.sma_long
        n == Len(sma_short)
        signal ==
            IF enough /\ n >= 2
            THEN IF sma_short[n - 1] <= sma_long[n - 1] /\ sma_short[n] > sma_long[n]
                 THEN "BUY"
                 ELSE IF sma_short[n - 1] >= sma_long[n - 1] /\ sma_short[n] < sma_long[n]
                 THEN "SELL"
                 ELSE "HOLD"
            ELSE "HOLD"
    IN  [signal  |-> signal,
         closure |-> [closure EXCEPT !.prices = prices, !.sma_short = sma_short,
                                     !.sma_long = sma_long]]

\* momentum_strategy(lookback, threshold): a new closure, its list empty;
\* the threshold is in hundredths
momentum_strategy(lookback, threshold) ==
    [lookback |-> lookback, threshold |-> threshold, prices |-> << >>]

\* strategy_logic(row) of momentum_strategy: the signal, and the closure afterwards.
\* momentum = (current_price - avg_price) / avg_price is compared across the
\* division, avg_price being positive.
momentum_strategy_logic(closure, row) ==
    LET prices        == Append(closure.prices, row.close)
        avg_price     == (sum(LastN(prices, closure.lookback)) * SmaD) \div closure.lookback
        current_price == row.close * SmaD
        signal ==
            IF Len(prices) < closure.lookback
            THEN "HOLD"
            ELSE IF (current_price - avg_price) * PD > closure.threshold * avg_price
            THEN "BUY"
            ELSE IF (current_price - avg_price) * PD < (-closure.threshold) * avg_price
            THEN "SELL"
            ELSE "HOLD"
    IN  [signal |-> signal, closure |-> [closure EXCEPT !.prices = prices]]

\* The strategy built from its parameters, and a call of it
build_strategy(parameters) ==
    IF parameters[1] = "sma_crossover"
    THEN sma_crossover(parameters[2], parameters[3])
    ELSE momentum_strategy(parameters[2], parameters[3])

call_strategy(parameters, closure, row) ==
    IF parameters[1] = "sma_crossover"
    THEN strategy_logic(closure, row)
    ELSE momentum_strategy_logic(closure, row)

\* Backtester._execute_buy. Cash and the asset balance are on the money grid,
\* the commission rate is in tenths.
Backtester_execute_buy(b, row) ==
    LET price          == row.close
        commission     == (b.cash * b.commission_rate) \div RD
        available_cash == b.cash - commission
        bought         == available_cash \div price
    IN  IF available_cash > 0
        THEN [b EXCEPT
                 !.asset_balance = bought,
                 !.position      = "LONG",
                 !.trade_history = Append(@,
                     [timestamp |-> row.timestamp, type |-> "BUY", price |-> price,
                      amount |-> bought, commission |-> commission,
                      cash_before |-> b.cash, pnl |-> Nothing, pnl_pct |-> Nothing]),
                 !.cash          = 0]
        ELSE b

\* [t for t in self.trade_history if t['type'] == 'BUY']
BuysOf(hist) == SelectSeq(hist, LAMBDA t : t.type = "BUY")

\* Backtester._execute_sell. pnl_pct is a percentage in hundredths.
Backtester_execute_sell(b, row) ==
    LET price        == row.close
        proceeds     == b.asset_balance * price
        commission   == (proceeds * b.commission_rate) \div RD
        cash         == proceeds - commission
        buys         == BuysOf(b.trade_history)
        last_buy     == buys[Len(buys)]
        has_history  == Len(b.trade_history) > 0
        pnl          == IF has_history THEN cash - last_buy.cash_before ELSE 0
        pnl_pct      == IF has_history
                        THEN (pnl * 100 * PD) \div last_buy.cash_before
                        ELSE 0
    IN  [b EXCEPT
            !.cash          = cash,
            !.asset_balance = 0,
            !.position      = None,
            !.trade_history = Append(@,
                [timestamp |-> row.timestamp, type |-> "SELL", price |-> price,
                 amount |-> b.asset_balance, commission |-> commission,
                 cash_before |-> b.cash, pnl |-> Some(pnl), pnl_pct |-> Some(pnl_pct)])]

\* The arithmetic of one row stays on the grids
RowRepresentable(b, signal, row) ==
    IF signal = "BUY" /\ b.position = None
    THEN /\ Exact(b.cash * b.commission_rate, RD)
         /\ Exact(b.cash - (b.cash * b.commission_rate) \div RD, row.close)
    ELSE IF signal = "SELL" /\ b.position = "LONG"
    THEN LET proceeds == b.asset_balance * row.close
             cash     == proceeds - (proceeds * b.commission_rate) \div RD
             buys     == BuysOf(b.trade_history)
         IN  /\ Exact(proceeds * b.commission_rate, RD)
             /\ Len(buys) > 0
             /\ buys[Len(buys)].cash_before # 0
             /\ Exact((cash - buys[Len(buys)].cash_before) * 100 * PD,
                      buys[Len(buys)].cash_before)
    ELSE TRUE

\* The loop body trading on the signal whatever the position
run_row_without_position_check(b, signal, row) ==
    LET traded == IF signal = "BUY"
                  THEN Backtester_execute_buy(b, row)
                  ELSE IF signal = "SELL"
                  THEN Backtester_execute_sell(b, row)
                  ELSE b
        portfolio_value == IF traded.position = "LONG"
                           THEN traded.cash + traded.asset_balance * row.close
                           ELSE traded.cash
    IN  [traded EXCEPT
            !.equity_curve = Append(@,
                [timestamp   |-> row.timestamp,
                 total_value |-> portfolio_value,
                 cash        |-> traded.cash,
                 asset_value |-> IF traded.position # None
                                 THEN traded.asset_balance * row.close ELSE 0])]

\* The loop body recording an equity point only for a row that traded
run_row_points_on_trades(b, signal, row) ==
    LET traded == IF signal = "BUY" /\ b.position = None
                  THEN Backtester_execute_buy(b, row)
                  ELSE IF signal = "SELL" /\ b.position = "LONG"
                  THEN Backtester_execute_sell(b, row)
                  ELSE b
        portfolio_value == IF traded.position = "LONG"
                           THEN traded.cash + traded.asset_balance * row.close
                           ELSE traded.cash
    IN  IF traded = b
        THEN b
        ELSE [traded EXCEPT
                !.equity_curve = Append(@,
                    [timestamp   |-> row.timestamp,
                     total_value |-> portfolio_value,
                     cash        |-> traded.cash,
                     asset_value |-> IF traded.position # None
                                     THEN traded.asset_balance * row.close ELSE 0])]

\* The body of the loop of Backtester.run for one row, after the strategy's signal
run_row(b, signal, row) ==
    LET traded == IF signal = "BUY" /\ b.position = None
                  THEN Backtester_execute_buy(b, row)
                  ELSE IF signal = "SELL" /\ b.position = "LONG"
                  THEN Backtester_execute_sell(b, row)
                  ELSE b
        portfolio_value == IF traded.position = "LONG"
                           THEN traded.cash + traded.asset_balance * row.close
                           ELSE traded.cash
    IN  [traded EXCEPT
            !.equity_curve = Append(@,
                [timestamp   |-> row.timestamp,
                 total_value |-> portfolio_value,
                 cash        |-> traded.cash,
                 asset_value |-> IF traded.position # None
                                 THEN traded.asset_balance * row.close ELSE 0])]

\* The start of run without the reset of the state
run_without_reset(b) == b

\* The reset at the start of Backtester.run
run_reset(b) ==
    [b EXCEPT !.cash = b.initial_capital, !.asset_balance = 0, !.position = None,
              !.equity_curve = << >>, !.trade_history = << >>]

\* The value Backtester.run returns
run_result(b) ==
    [equity_curve    |-> b.equity_curve,
     trade_history   |-> b.trade_history,
     final_value     |-> IF b.equity_curve # << >>
                         THEN b.equity_curve[Len(b.equity_curve)].total_value
                         ELSE b.initial_capital,
     initial_capital |-> b.initial_capital]

InitialCapitals == {0, Q}
CommissionRates == {0, 1}
CloseSeries     == UNION {[1..n -> {2, 4}] : n \in 0..4}
StrategyParameters == {<<"sma_crossover", 1, 2>>, <<"momentum_strategy", 3, 2>>}

\* A historical series: row i carries the timestamp 10 * i and its close
Rows(closes) == [i \in 1..Len(closes) |-> [timestamp |-> 10 * i, close |-> closes[i]]]

\* Backtester.__init__. Beside the object's fields: the call of run in progress
\* (its data, its strategy, the rows done, the value returned), the number of
\* runs completed, the first completed run, and whether a run on another
\* input has completed since.
BacktesterInit ==
    \E capital \in InitialCapitals, rate \in CommissionRates :
        backtester = [initial_capital |-> capital, commission_rate |-> rate,
                      equity_curve |-> << >>, trade_history |-> << >>,
                      cash |-> capital, asset_balance |-> 0, position |-> None,
                      running |-> FALSE, data |-> << >>, parameters |-> << >>,
                      strategy |-> Nothing, idx |-> 0, result |-> Nothing,
                      runs |-> 0, first |-> Nothing, other |-> FALSE]

\* backtester.run(data, strategy) with a strategy just built: up to the loop
Run ==
    /\ ~backtester.running
    /\ backtester.runs < MaxRuns
    /\ \E closes \in CloseSeries, parameters \in StrategyParameters :
          backtester' = [run_reset(backtester) EXCEPT
                            !.running    = TRUE,
                            !.data       = Rows(closes),
                            !.parameters = parameters,
                            !.strategy   = Some(build_strategy(parameters)),
                            !.idx        = 0,
                            !.result     = Nothing]
    /\ UNCHANGED <<aggVars, traderVars, pmVars, riskVars, kernel, loop, analytics>>

\* One pass of the loop of run
RunRow ==
    /\ backtester.running
    /\ backtester.idx < Len(backtester.data)
    /\ LET row  == backtester.data[backtester.idx + 1]
           call == call_strategy(backtester.parameters, backtester.strategy[1], row)
       IN  /\ RowRepresentable(backtester, call.signal, row)
           /\ backtester' = [run_row(backtester, call.signal, row) EXCEPT
                                !.strategy = Some(call.closure),
                                !.idx      = @ + 1]
    /\ UNCHANGED <<aggVars, traderVars, pmVars, riskVars, kernel, loop, analytics>>

\* The inputs and the outputs of a completed run
RunRecord(b) == [data |-> b.data, parameters |-> b.parameters, result |-> run_result(b)]

\* The loop is over: run returns
RunReturn ==
    /\ backtester.running
    /\ backtester.idx = Len(backtester.data)
    /\ backtester' = [backtester EXCEPT
          !.running  = FALSE,
          !.strategy = Nothing,
          !.result   = Some(run_result(backtester)),
          !.runs     = @ + 1,
          !.first    = IF @ = Nothing THEN Some(RunRecord(backtester)) ELSE @,
          !.other    = IF backtester.first = Nothing THEN FALSE
                       ELSE @ \/ backtester.data # backtester.first[1].data
                              \/ backtester.parameters # backtester.first[1].parameters]
    /\ UNCHANGED <<aggVars, traderVars, pmVars, riskVars, kernel, loop, analytics>>

---------------------------------------------------------------------------
(* backtesting/analytics.py *)

MaxHistory == 4

\* trade_history[trade_history['type'] == 'SELL']
SellsOf(hist) == SelectSeq(hist, LAMBDA t : t.type = "SELL")

\* sell_trades[sell_trades['pnl'] > 0]
WinningOf(sells) == SelectSeq(sells, LAMBDA t : t.pnl[1] > 0)

\* The win rate counting a SELL that breaks even as a win
calculate_win_rate_counting_break_even(history) ==
    IF history = << >>
    THEN <<0, 1>>
    ELSE LET sell_trades == SellsOf(history)
         IN  IF Len(sell_trades) = 0
             THEN <<0, 1>>
             ELSE <<Len(SelectSeq(sell_trades, LAMBDA t : t.pnl[1] >= 0)) * 100,
                    Len(sell_trades)>>

\* calculate_win_rate; the percentage is kept as the fraction <<numerator, denominator>>
calculate_win_rate(history) ==
    IF history = << >>
    THEN <<0, 1>>
    ELSE LET sell_trades == SellsOf(history)
         IN  IF Len(sell_trades) = 0
             THEN <<0, 1>>
             ELSE LET winning_trades == Len(WinningOf(sell_trades))
                  IN  <<winning_trades * 100, Len(sell_trades)>>

\* Trade records as Backtester writes them: a BUY has no pnl, a SELL has one
TradeRecords ==
    {[type |-> "BUY", pnl |-> Nothing]} \cup
    {[type |-> "SELL", pnl |-> Some(p)] : p \in {-Q, 0, Q}}

RECURSIVE Histories(_)
Histories(n) ==
    IF n = 0 THEN {<< >>}
    ELSE LET shorter == Histories(n - 1)
         IN  shorter \cup {Append(h, t) : h \in shorter, t \in TradeRecords}

AnalyticsInit == analytics = [op |-> "import", trade_history |-> << >>, result |-> <<0, 1>>]

\* calculate_win_rate(trade_history)
CalculateWinRate ==
    /\ \E h \in Histories(MaxHistory) :
          analytics' = [op |-> "calculate_win_rate", trade_history |-> h,
                        result |-> calculate_win_rate(h)]
    /\ UNCHANGED <<aggVars, traderVars, pmVars, riskVars, kernel, backtester, loop>>

---------------------------------------------------------------------------
(* Specifications: one per component, the other components at rest *)

AggregatorIdle ==
    /\ agg_constructed = FALSE
    /\ sentiment_weight = 0
    /\ quantum_weight = 0
    /\ ai_weight = 0
    /\ agg_call = NoAggCall

TraderIdle ==
    /\ initial_balance = 0
    /\ balance = 0
    /\ holdings = 0
    /\ fee_rate = 0
    /\ min_trade_amount = 0
    /\ trade_history = << >>
    /\ ret = TraderCall(None, None, None, 0, 0)

LedgerIdle ==
    /\ cash_balance = 0
    /\ positions = NoPrices
    /\ max_position_size_pct = 0
    /\ max_drawdown_pct = 0
    /\ risk_initial_balance = 0
    /\ ledger_call = LedgerCall(None, 0, NoTransaction, FALSE, NoPrices, None, TRUE)

\* No BotKernel: the paper trader stands alone
NoKernel == [active |-> FALSE]
KernelIdle == kernel = NoKernel

\* No analytics call
NoAnalytics == [op |-> None]
AnalyticsIdle == analytics = NoAnalytics

\* No Execution Loop
NoLoop == [state |-> None]
LoopIdle == loop = NoLoop

\* No Backtester
NoBacktester == [running |-> FALSE]
BacktesterIdle == backtester = NoBacktester

\* The signal aggregator
InitAggregator == AggregatorInit /\ TraderIdle /\ LedgerIdle /\ KernelIdle /\ BacktesterIdle /\ LoopIdle /\ AnalyticsIdle
NextAggregator ==
    \/ AggregateSignals
    \/ MakeTradeSignal
SpecAggregator == InitAggregator /\ [][NextAggregator]_vars

\* The paper trader
InitTrader == TraderInit /\ AggregatorIdle /\ LedgerIdle /\ KernelIdle /\ BacktesterIdle /\ LoopIdle /\ AnalyticsIdle
NextTrader ==
    \/ ExecuteOrder
    \/ Reset
SpecTrader == InitTrader /\ [][NextTrader]_vars

\* The portfolio manager and the risk engine that reads it
InitLedger == LedgerInit /\ AggregatorIdle /\ TraderIdle /\ KernelIdle /\ BacktesterIdle /\ LoopIdle /\ AnalyticsIdle
NextLedger ==
    \/ Deposit
    \/ Withdraw
    \/ ExecuteTrade
    \/ SetInitialBalance
    \/ CheckTradeRisk
    \/ CheckMaxDrawdown
SpecLedger == InitLedger /\ [][NextLedger]_vars

\* The bot kernel with its aggregator and its paper trader
InitKernel == KernelInit /\ LedgerIdle /\ BacktesterIdle /\ LoopIdle /\ AnalyticsIdle
NextKernel ==
    \/ Step
    \/ KernelReset
SpecKernel == InitKernel /\ [][NextKernel]_vars

\* The engine: a paper trader driven by its caller, or by a bot kernel
InitEngine == InitTrader \/ InitKernel
NextEngine ==
    \/ ExecuteOrder
    \/ Reset
    \/ Step
    \/ KernelReset
SpecEngine == InitEngine /\ [][NextEngine]_vars

\* The backtester
InitBacktest == BacktesterInit /\ AggregatorIdle /\ TraderIdle /\ LedgerIdle /\ KernelIdle /\ LoopIdle /\ AnalyticsIdle
NextBacktest ==
    \/ Run
    \/ RunRow
    \/ RunReturn
SpecBacktest == InitBacktest /\ [][NextBacktest]_vars

\* The paper trader in the profit scenario
InitScenario == ScenarioInit /\ AggregatorIdle /\ LedgerIdle /\ KernelIdle /\ BacktesterIdle /\ LoopIdle /\ AnalyticsIdle
NextScenario ==
    \/ ScenarioOrder
SpecScenario == InitScenario /\ [][NextScenario]_vars

\* The Execution Loop driving a bot kernel
InitLoop == KernelInit /\ LedgerIdle /\ BacktesterIdle /\ LoopInit /\ AnalyticsIdle
NextLoop ==
    \/ RequestStop
    \/ LoopCheck
    \/ LoopStep
    \/ LoopSleep
SpecLoop == InitLoop /\ [][NextLoop]_vars

\* The analytics functions
InitAnalytics ==
    /\ AnalyticsInit /\ AggregatorIdle /\ TraderIdle /\ LedgerIdle /\ KernelIdle
    /\ BacktesterIdle /\ LoopIdle
NextAnalytics ==
    \/ CalculateWinRate
SpecAnalytics == InitAnalytics /\ [][NextAnalytics]_vars

\* The paper trader trading all-in
NextAllIn ==
    \/ AllInOrder
    \/ Reset
SpecAllIn == InitTrader /\ [][NextAllIn]_vars

---------------------------------------------------------------------------
(* Properties. What a property says of a call is stated from the call's     *)
(* arguments and the state around it, not through the operators above.      *)

\* The last record of a trade history
LastTrade(hist) == hist[Len(hist)]

RECURSIVE SumOfFees(_)
SumOfFees(hist) ==
    IF hist = << >> THEN 0
    ELSE LastTrade(hist).fee + SumOfFees(SubSeq(hist, 1, Len(hist) - 1))

\* This step is an execute_order call that returned (a Trade or None)
OrderReturned == ret'.op = "execute_order" /\ ret'.outcome \in {"Trade", None}

\* C1, per call: an execute_order that executes a BUY or a SELL at a price p > 0
\* leaves balance + holdings * p lower by exactly the fee recorded on its Trade.
C1_CallConservesValue ==
    (ret'.op = "execute_order" /\ ret'.outcome = "Trade" /\ LastTrade(trade_history').price > 0)
    => LET t == LastTrade(trade_history')
       IN  /\ t.action \in {"BUY", "SELL"}
           /\ balance' + holdings' * t.price = balance + holdings * t.price - t.fee

\* C1, over a history: when every recorded call was made at one price p > 0, the
\* portfolio valued at p is the initial balance less the fees recorded.
C1_ConstantPriceValue ==
    /\ trade_history = << >> => (balance = initial_balance /\ holdings = 0)
    /\ \A p \in {trade_history[i].price : i \in DOMAIN trade_history} :
          (p > 0 /\ \A i \in DOMAIN trade_history : trade_history[i].price = p)
          => balance + holdings * p = initial_balance - SumOfFees(trade_history)

\* C1: PaperTrader value conservation: every executed BUY or SELL at a price p > 0
\* changes balance + holdings * p by minus its fee and by nothing else, so after
\* any sequence of orders at one constant price the portfolio value at that price
\* is initial_balance minus the sum of the recorded fees.
C1_ValueConservation == []C1_ConstantPriceValue /\ [][C1_CallConservesValue]_vars

\* C1's case: a BUY and then a SELL, both executed at one price with fees charged
C1_Witness ==
    /\ Len(trade_history) = 3
    /\ trade_history[1].action = "BUY" /\ trade_history[1].fee > 0
    /\ trade_history[2].action = "SELL" /\ trade_history[2].fee > 0
    /\ trade_history[3].action = "BUY" /\ trade_history[3].fee > 0
    /\ \A i \in DOMAIN trade_history : trade_history[i].price = trade_history[1].price
    /\ holdings > 0 /\ balance > 0

\* This step is an execute_trade call
TradeCalled ==
    ledger_call'.op = "execute_trade" /\ ledger_call'.n = ledger_call.n + 1

\* The quantity of a symbol held before the step (0 when the symbol is absent)
HeldBefore(symbol) == IF symbol \in DOMAIN positions THEN positions[symbol] ELSE 0

LedgerUntouched == cash_balance' = cash_balance /\ positions' = positions

\* C2 as stated: a buy whose total_cost exceeds cash_balance raises
\* InsufficientFundsError, a sell whose amount exceeds the held quantity raises
\* InsufficientHoldingsError, and neither changes cash_balance or positions.
C2_AsStated ==
    [][TradeCalled =>
        LET tx == ledger_call'.tx
        IN  /\ (tx.side = "buy" /\ tx.total_cost > cash_balance)
               => (ledger_call'.raised = "InsufficientFundsError" /\ LedgerUntouched)
            /\ (tx.side = "sell" /\ tx.amount > HeldBefore(tx.symbol))
               => (ledger_call'.raised = "InsufficientHoldingsError" /\ LedgerUntouched)
      ]_vars

\* C2, amended: PortfolioManager guards are all-or-nothing. For a transaction with
\* amount > 0, price > 0 and fee >= 0, a buy whose total_cost exceeds cash_balance
\* raises InsufficientFundsError and a sell whose amount exceeds the held quantity
\* raises InsufficientHoldingsError; a transaction with amount <= 0, price <= 0 or
\* fee < 0 raises ValueError instead; every call that raises leaves cash_balance
\* and positions as they were.
C2_GuardsAllOrNothing ==
    [][TradeCalled =>
        LET tx == ledger_call'.tx
            wellFormed == tx.amount > 0 /\ tx.price > 0 /\ tx.fee >= 0
        IN  /\ (wellFormed /\ tx.side = "buy" /\ tx.total_cost > cash_balance)
               => ledger_call'.raised = "InsufficientFundsError"
            /\ (wellFormed /\ tx.side = "sell" /\ tx.amount > HeldBefore(tx.symbol))
               => ledger_call'.raised = "InsufficientHoldingsError"
            /\ ~wellFormed => ledger_call'.raised = "ValueError"
            /\ ledger_call'.raised # None => LedgerUntouched
      ]_vars

\* C2's case: a sell of more than is held of a symbol that is held was refused
C2_Witness ==
    /\ ledger_call.op = "execute_trade"
    /\ ledger_call.raised = "InsufficientHoldingsError"
    /\ ledger_call.tx.symbol \in DOMAIN positions
    /\ cash_balance > 0

\* C3: ledger non-negativity: in every state reachable through the constructor,
\* deposit, withdraw and execute_trade, cash_balance >= 0 and every quantity stored
\* in positions is >= 0.
C3_NonNegativeLedger ==
    /\ cash_balance >= 0
    /\ \A s \in DOMAIN positions : positions[s] >= 0

\* An input clamped to [-1, 1]
Clamped(v) == IF v < -SD THEN -SD ELSE IF v > SD THEN SD ELSE v

\* The weighted score of the last aggregate_signals call, from its arguments and
\* the weights of the aggregator
ScoreOfCall ==
    Clamped(agg_call.sentiment_data) * sentiment_weight
    + Clamped(agg_call.quantum_data) * quantum_weight
    + Clamped(agg_call.ai_prediction) * ai_weight

Aggregated == agg_call.op = "aggregate_signals"

\* C4: negative-sentiment veto precedence: with clamped sentiment < -0.8,
\* aggregate_signals returns SELL when the weighted score is < -0.5 and HOLD
\* otherwise, never BUY, with a reason that names the veto, for every accepted
\* weight triple and whatever quantum and aiPrediction are.
C4_NegativeSentimentVeto ==
    (Aggregated /\ 10 * Clamped(agg_call.sentiment_data) < -8 * SD)
    => /\ agg_call.signal.action = (IF 2 * ScoreOfCall < -SW THEN "SELL" ELSE "HOLD")
       /\ agg_call.signal.action # "BUY"
       /\ agg_call.signal.reason \in
            {"Veto: Strong negative sentiment with negative overall signal",
             "Veto: Strong negative sentiment prevents buying"}

\* C4's case: the veto held back a score that would otherwise have been a BUY
C4_Witness ==
    /\ Aggregated
    /\ 10 * Clamped(agg_call.sentiment_data) < -8 * SD
    /\ 10 * ScoreOfCall > 3 * SW
    /\ agg_call.signal.action = "HOLD"

\* C5: agreement veto: with clamped sentiment > 0.8 and clamped aiPrediction > 0.6,
\* aggregate_signals returns BUY with the agreement-veto reason, for every quantum
\* value and accepted weight triple, also when the weighted score is not above 0.3.
C5_AgreementVeto ==
    (Aggregated /\ 10 * Clamped(agg_call.sentiment_data) > 8 * SD
                /\ 10 * Clamped(agg_call.ai_prediction) > 6 * SD)
    => /\ agg_call.signal.action = "BUY"
       /\ agg_call.signal.reason = "Veto: Strong positive sentiment confirmed by AI"

\* C5's case: the veto bought on a negative weighted score with an extreme,
\* diverging quantum indicator
C5_Witness ==
    /\ Aggregated
    /\ 10 * Clamped(agg_call.sentiment_data) > 8 * SD
    /\ 10 * Clamped(agg_call.ai_prediction) > 6 * SD
    /\ ScoreOfCall < 0
    /\ 10 * Abs(Clamped(agg_call.quantum_data)) > 9 * SD
    /\ agg_call.signal.action = "BUY"

VetoReasons ==
    {"Veto: Strong negative sentiment with negative overall signal",
     "Veto: Strong negative sentiment prevents buying",
     "Veto: Strong positive sentiment confirmed by AI",
     "Veto: Quantum indicator shows extreme divergence"}

\* C6: confidence bound: every TradeSignal returned by aggregate_signals has
\* 0 <= confidence <= 1, one produced by a veto rule has confidence <= 0.95, and
\* constructing a TradeSignal with confidence outside [0, 1] raises ValueError.
C6_ConfidenceBound ==
    /\ Aggregated =>
          /\ agg_call.signal.action \in {"BUY", "SELL", "HOLD"}
          /\ 0 <= agg_call.signal.confidence
          /\ agg_call.signal.confidence <= SW
          /\ agg_call.signal.reason \in VetoReasons
                => 20 * agg_call.signal.confidence <= 19 * SW
    /\ agg_call.op = "TradeSignal" =>
          (agg_call.signal.action = "ValueError"
             <=> (agg_call.signal.confidence < 0 \/ agg_call.signal.confidence > SW))

\* C6's case: a weighted score beyond 1 in magnitude gave a threshold decision of
\* confidence exactly 1
C6_Witness ==
    /\ Aggregated
    /\ Abs(ScoreOfCall) > SW
    /\ agg_call.signal.reason \notin VetoReasons
    /\ agg_call.signal.confidence = SW

\* C7, in every state: the aggregator exists exactly when the weights handed to
\* the constructor sum to 1.0 within 1e-6, and the weights of an aggregator that
\* exists sum to 1.0 within 1e-6.
C7_WeightsSumToOne ==
    /\ agg_call.op = "__init__" =>
          (agg_constructed <=>
             /\ agg_call.sentiment_data + agg_call.quantum_data + agg_call.ai_prediction
                  >= WD - WD \div 1000000
             /\ agg_call.sentiment_data + agg_call.quantum_data + agg_call.ai_prediction
                  <= WD + WD \div 1000000)
    /\ agg_constructed =>
          /\ sentiment_weight + quantum_weight + ai_weight >= WD - WD \div 1000000
          /\ sentiment_weight + quantum_weight + ai_weight <= WD + WD \div 1000000

\* C7: weight invariant: construction succeeds only when the three weights sum to
\* 1.0 within 1e-6 and raises ValueError otherwise, so every aggregator that
\* exists has weights summing to 1.0 +/- 1e-6; aggregate_signals never changes
\* the weights.
C7_WeightInvariant ==
    /\ []C7_WeightsSumToOne
    /\ [][/\ sentiment_weight' = sentiment_weight
          /\ quantum_weight' = quantum_weight
          /\ ai_weight' = ai_weight]_vars

\* C7's case: an aggregator whose weights sum to 1.0 + 1e-6 exists and has been used
C7_Witness ==
    /\ agg_constructed
    /\ Aggregated
    /\ sentiment_weight + quantum_weight + ai_weight = WD + WD \div 1000000

\* The value of the ledger at the prices of the last risk call
\* (a symbol without a price counts for nothing)
ValueAtCall ==
    LET worth(s) == IF s \in DOMAIN positions /\ s \in DOMAIN ledger_call.prices
                    THEN positions[s] * ledger_call.prices[s]
                    ELSE 0
    IN  cash_balance + worth("BTC") + worth("ETH")

\* (initial_balance - value) / initial_balance > max_drawdown_pct, initial_balance > 0
DrawdownBreached ==
    /\ risk_initial_balance > 0
    /\ (risk_initial_balance - ValueAtCall) * PD > max_drawdown_pct * risk_initial_balance

BuyChecked == ledger_call.op = "check_trade_risk" /\ ledger_call.tx.side = "buy"

\* C8: drawdown gate: with initial_balance set (> 0) and a drawdown beyond
\* max_drawdown_pct, check_trade_risk returns False for every BUY whatever its
\* amount and price; with initial_balance never set, the drawdown rule rejects
\* nothing (check_max_drawdown returns True).
C8_DrawdownGate ==
    /\ (BuyChecked /\ DrawdownBreached) => ledger_call.result = FALSE
    /\ (ledger_call.op = "check_max_drawdown" /\ risk_initial_balance = 0)
          => ledger_call.result = TRUE
    /\ (ledger_call.op = "check_trade_risk" /\ ledger_call.tx.side = "sell"
          /\ risk_initial_balance = 0)
          => ledger_call.result = TRUE

\* C8's case: a BUY within the position limit, prices supplied, refused for drawdown
C8_Witness ==
    /\ BuyChecked
    /\ ledger_call.prices_given
    /\ DrawdownBreached
    /\ ValueAtCall > 0
    /\ ledger_call.tx.amount * ledger_call.tx.price * PD
          <= max_position_size_pct * ValueAtCall
    /\ ledger_call.result = FALSE

\* C9: position-size rule: a BUY with current prices supplied and no drawdown
\* breach passes if and only if the portfolio value is > 0 and
\* amount * price / value <= max_position_size_pct (a trade exactly at the limit
\* is accepted); a BUY with current_prices = None is always rejected.
C9_PositionSizeRule ==
    /\ (BuyChecked /\ ledger_call.prices_given /\ ~DrawdownBreached)
          => (ledger_call.result = TRUE
                <=> /\ ValueAtCall > 0
                    /\ ledger_call.tx.amount * ledger_call.tx.price * PD
                          <= max_position_size_pct * ValueAtCall)
    /\ (BuyChecked /\ ~ledger_call.prices_given) => ledger_call.result = FALSE

\* C9's case: a BUY exactly at the limit, with a position held, was accepted
C9_Witness ==
    /\ BuyChecked
    /\ ledger_call.prices_given
    /\ positions # NoPrices
    /\ ledger_call.tx.amount * ledger_call.tx.price * PD
          = max_position_size_pct * ValueAtCall
    /\ ledger_call.result = TRUE

\* C10, per call: an execute_order that returns appends exactly one record and
\* leaves the earlier records as they were; for a HOLD signal the record is a
\* HOLD of amount 0 and fee 0, and balance and holdings are unchanged.
C10_CallAppendsOneRecord ==
    OrderReturned =>
        /\ Len(trade_history') = Len(trade_history) + 1
        /\ SubSeq(trade_history', 1, Len(trade_history)) = trade_history
        /\ ret'.action = "HOLD" =>
              /\ ret'.outcome = None
              /\ LastTrade(trade_history').action = "HOLD"
              /\ LastTrade(trade_history').amount = 0
              /\ LastTrade(trade_history').fee = 0
              /\ balance' = balance
              /\ holdings' = holdings

\* C10: complete audit trail: every execute_order call that returns normally
\* appends exactly one record and alters no earlier one (a HOLD signal gives a HOLD
\* record of amount 0 and fee 0, balance and holdings unchanged), and after n
\* BotKernel.step calls since construction or reset trade_history holds exactly
\* n records.
C10_AsStated ==
    /\ [](kernel.active => Len(trade_history) = kernel.step_count)
    /\ [][C10_CallAppendsOneRecord]_vars

\* C10, what the code keeps: every execute_order call that returns normally
\* appends exactly one record and never alters an earlier one; a HOLD signal gives
\* a HOLD record of amount 0 and fee 0 with balance and holdings unchanged. After
\* n BotKernel.step calls since construction or reset trade_history holds exactly
\* n records when the kernel's trade_percentage is in [0, 1]; with a
\* trade_percentage outside [0, 1] every step raises ValueError out of
\* execute_order and trade_history stays empty.
C10_AuditTrail ==
    /\ [](kernel.active =>
            IF 0 <= kernel.trade_percentage /\ kernel.trade_percentage <= RD
            THEN Len(trade_history) = kernel.step_count
            ELSE Len(trade_history) = 0)
    /\ [][C10_CallAppendsOneRecord]_vars

\* C10's case: a kernel took two steps, a BUY and then a HOLD signal, both recorded
C10_Witness ==
    /\ kernel.active
    /\ kernel.step_count = 2
    /\ Len(trade_history) = 2
    /\ trade_history[1].action = "BUY"
    /\ ret.action = "HOLD"
    /\ trade_history[2].action = "HOLD"
    /\ trade_history[2].amount = 0
    /\ holdings > 0

\* The kernel's last operation was a step
AfterStep == kernel.active /\ kernel.step_count > 0

\* A score fetcher that is configured raised in the last step
ScoreFeedFault ==
    \/ kernel.fetchers.sentiment /\ kernel.outcomes.sentiment = Nothing
    \/ kernel.fetchers.quantum /\ kernel.outcomes.quantum = Nothing
    \/ kernel.fetchers.ai /\ kernel.outcomes.ai = Nothing

\* The score a cycle is to use: what the fetcher returned, 0.0 when it raised or is absent
ScoreUsed(outcome) == IF outcome = Nothing THEN 0 ELSE outcome[1]

\* The last step returned a result built from the substituted scores: it aggregated
\* them, handed the signal to execute_order and recorded the order
CycleCompleted ==
    /\ kernel.result.raised = None
    /\ kernel.result.step = kernel.step_count
    /\ kernel.result.sentiment = ScoreUsed(kernel.outcomes.sentiment)
    /\ kernel.result.quantum = ScoreUsed(kernel.outcomes.quantum)
    /\ kernel.result.ai = ScoreUsed(kernel.outcomes.ai)
    /\ kernel.result.signal =
          Some(aggregate_signals(ScoreUsed(kernel.outcomes.sentiment),
                                 ScoreUsed(kernel.outcomes.quantum),
                                 ScoreUsed(kernel.outcomes.ai),
                                 sentiment_weight, quantum_weight, ai_weight))
    /\ ret.op = "execute_order"
    /\ ret.outcome \in {"Trade", None}
    /\ ret.action = kernel.result.signal[1].action
    /\ trade_history # << >>
    /\ LastTrade(trade_history).price = kernel.result.price

\* C12: score-feed faults are absorbed: if any of the sentiment, quantum or AI
\* fetchers raises during BotKernel.step, step does not raise; the failed score is
\* replaced by 0.0 for that cycle, the values of the other fetchers are used
\* unchanged, and the cycle still aggregates, executes the order and returns its
\* result.
C12_FeedFaultsAbsorbed == (AfterStep /\ ScoreFeedFault) => CycleCompleted

\* C12, what the code keeps: a step raises exactly when the kernel's
\* trade_percentage is outside [0, 1] (ValueError from execute_order) or its
\* initial balance is 0 (ZeroDivisionError from get_profit_loss), whether or not a
\* score fetcher raised; every other step completes its cycle with 0.0 in place of
\* each failed score and the other scores unchanged.
C12_FaultsSubstituted ==
    AfterStep =>
        IF kernel.trade_percentage < 0 \/ kernel.trade_percentage > RD
        THEN kernel.result.raised = "ValueError"
        ELSE IF initial_balance = 0
        THEN kernel.result.raised = "ZeroDivisionError"
        ELSE CycleCompleted

\* C12's case: the sentiment fetcher raised, the other two returned, and the cycle
\* went on to execute a BUY
C12_Witness ==
    /\ AfterStep
    /\ kernel.fetchers.sentiment /\ kernel.outcomes.sentiment = Nothing
    /\ kernel.outcomes.quantum # Nothing /\ kernel.outcomes.ai # Nothing
    /\ CycleCompleted
    /\ kernel.result.sentiment = 0
    /\ kernel.result.quantum # 0 /\ kernel.result.ai # 0
    /\ ret.outcome = "Trade" /\ ret.action = "BUY"

\* This step is a call of BotKernel.step
StepCalled == kernel.active /\ kernel'.step_count = kernel.step_count + 1

\* The price fetcher was called in the last step and returned a valid price
PriceFetched(k) ==
    k.fetchers.price /\ k.outcomes.price # Nothing /\ k.outcomes.price[1] > 0

\* C13, per step: a valid fetched price is used and cached; after a fetch that
\* raised or returned a non-positive value the cache is what it was and the cycle
\* uses the cached price (1.0 when no valid price was fetched yet).
C13_StepUsesLastGoodPrice ==
    StepCalled =>
        IF PriceFetched(kernel')
        THEN /\ kernel'.current_price = kernel'.outcomes.price[1]
             /\ kernel'.latest_price = Some(kernel'.outcomes.price[1])
        ELSE /\ kernel'.latest_price = kernel.latest_price
             /\ kernel'.current_price =
                   (IF kernel.latest_price = Nothing THEN 1 ELSE kernel.latest_price[1])

\* C13, in every state: the price a cycle used is > 0 and so is the cached price
C13_PricePositive ==
    /\ AfterStep => kernel.current_price > 0
    /\ (kernel.active /\ kernel.latest_price # Nothing) => kernel.latest_price[1] > 0

\* C13: price fallback: the price used by a BotKernel cycle is always > 0; when the
\* price fetcher raises or returns a non-positive value the cycle uses the most
\* recent valid price returned by an earlier fetch, and an invalid value never
\* overwrites the cached last good price.
C13_PriceFallback == []C13_PricePositive /\ [][C13_StepUsesLastGoodPrice]_vars

\* C13's case: a cycle fetched the price 0 and traded at the price of the cycle before
C13_Witness ==
    /\ AfterStep
    /\ kernel.step_count = 2
    /\ kernel.outcomes.price = Some(0)
    /\ kernel.latest_price # Nothing
    /\ kernel.current_price = kernel.latest_price[1]
    /\ kernel.current_price > 1
    /\ LastTrade(trade_history).price = kernel.current_price

\* RiskEngine's default limits
DefaultMaxPositionSizePct == PD \div 4      \* 0.25
DefaultMaxDrawdownPct     == PD \div 5      \* 0.20

\* The paper trader's account seen as a ledger of one position
AccountPositions(hold) == [s \in {"BTC"} |-> hold]

\* The Risk Gate's verdict on the order a cycle has just applied, taken on the
\* account as it was before the order, at the cycle's price, with the gate's
\* default limits and the account's initial balance as the drawdown baseline
GateApproves(t) ==
    check_trade_risk(balance, AccountPositions(holdings), DefaultMaxPositionSizePct,
                     DefaultMaxDrawdownPct, initial_balance,
                     IF t.action = "BUY" THEN "buy" ELSE "sell", t.amount, t.price,
                     TRUE, AccountPositions(t.price))

\* C14: the Risk Gate is enforced by the Execution Loop: a cycle applies a BUY or
\* SELL to the ledger only when the Risk Gate approves the proposed trade (when it
\* rejects, a HOLD record is appended and cash and position are unchanged), so no
\* executed BUY commits more than maxPositionSizePct of the portfolio value.
C14_RiskGateEnforced ==
    [][(StepCalled /\ ret'.outcome = "Trade")
          => /\ GateApproves(LastTrade(trade_history'))
             /\ LastTrade(trade_history').action = "BUY"
                  => LastTrade(trade_history').amount * LastTrade(trade_history').price * PD
                        <= DefaultMaxPositionSizePct
                             * (balance + holdings * LastTrade(trade_history').price)
      ]_vars

\* This step is a call of execute_order
OrderCalled == ret'.op = "execute_order"

\* The order handed to this call of execute_order cannot be filled: a BUY with
\* balance * trade_percentage below min_trade_amount, a SELL with nothing to sell,
\* or a SELL whose proceeds are below min_trade_amount
OrderCannotFill ==
    \/ /\ ret'.action = "BUY"
       /\ balance * ret'.trade_percentage < min_trade_amount * RD
    \/ /\ ret'.action = "SELL"
       /\ \/ holdings * ret'.trade_percentage <= 0
          \/ holdings * ret'.trade_percentage * ret'.current_price < min_trade_amount * RD

\* The call returned None, appended one HOLD record of amount 0 and fee 0, and left
\* balance and holdings as they were
HoldRecorded ==
    /\ ret'.outcome = None
    /\ Len(trade_history') = Len(trade_history) + 1
    /\ SubSeq(trade_history', 1, Len(trade_history)) = trade_history
    /\ LastTrade(trade_history').action = "HOLD"
    /\ LastTrade(trade_history').amount = 0
    /\ LastTrade(trade_history').fee = 0
    /\ balance' = balance
    /\ holdings' = holdings

\* C15 as stated: a failed order is a HOLD, not an error: execute_order with a BUY
\* signal whose balance * trade_percentage is below min_trade_amount, or a SELL
\* signal with no holdings to sell or with sale proceeds below min_trade_amount,
\* does not raise; it returns None, appends one HOLD record with amount 0 and fee
\* 0, and leaves balance and holdings unchanged.
C15_AsStated == [][(OrderCalled /\ OrderCannotFill) => HoldRecorded]_vars

\* C15, amended: a failed order is a HOLD, not an error, for a trade_percentage in
\* [0, 1]: such a BUY or SELL does not raise, returns None, appends one HOLD record
\* with amount 0 and fee 0 and leaves balance and holdings unchanged. With a
\* trade_percentage outside [0, 1] execute_order raises ValueError before it looks
\* at the order, appends nothing and leaves balance and holdings unchanged.
C15_FailedOrderIsHold ==
    [][(OrderCalled /\ OrderCannotFill) =>
          IF 0 <= ret'.trade_percentage /\ ret'.trade_percentage <= RD
          THEN HoldRecorded
          ELSE /\ ret'.outcome = "ValueError"
               /\ trade_history' = trade_history
               /\ balance' = balance
               /\ holdings' = holdings
      ]_vars

\* C15's case: a SELL of holdings whose proceeds are below min_trade_amount was
\* recorded as a HOLD
C15_Witness ==
    /\ ret.op = "execute_order"
    /\ ret.action = "SELL"
    /\ ret.outcome = None
    /\ holdings * ret.trade_percentage > 0
    /\ holdings * ret.trade_percentage * ret.current_price < min_trade_amount * RD
    /\ LastTrade(trade_history).action = "HOLD"
    /\ Len(trade_history) > 1

\* C16: a first-ever price failure is unusable for trading: in a cycle where the
\* price fetch fails (raises, returns a non-positive value, or no fetcher is
\* configured) and no earlier valid price exists, the sentinel price is not traded
\* on: balance and holdings are unchanged, although the cycle is still recorded.
C16_SentinelNotTradedOn ==
    [][(StepCalled /\ ~PriceFetched(kernel') /\ kernel.latest_price = Nothing)
          => /\ balance' = balance
             /\ holdings' = holdings
             /\ ret'.outcome \in {"Trade", None}
                  => Len(trade_history') = Len(trade_history) + 1
      ]_vars

\* This step is an execute_trade call that accepted its transaction
TradeAccepted == TradeCalled /\ ledger_call'.raised = None

\* C17: PortfolioManager cash movement: for every transaction accepted by
\* execute_trade, cash_balance decreases by exactly price*amount + fee on a buy and
\* increases by exactly price*amount - fee on a sell, so that cash_balance plus the
\* traded position valued at the trade price drops by exactly the fee.
C17_CashMovement ==
    [][TradeAccepted =>
        LET tx == ledger_call'.tx
            heldAfter == IF tx.symbol \in DOMAIN positions' THEN positions'[tx.symbol]
                         ELSE 0
        IN  /\ tx.side = "buy" => cash_balance' = cash_balance - (tx.price * tx.amount + tx.fee)
            /\ tx.side = "sell" => cash_balance' = cash_balance + (tx.price * tx.amount - tx.fee)
            /\ cash_balance' + heldAfter * tx.price
                  = cash_balance + HeldBefore(tx.symbol) * tx.price - tx.fee
      ]_vars

\* C18, in every state: no symbol is in positions with a zero or negative quantity
C18_NoEmptyPosition == \A s \in DOMAIN positions : positions[s] > 0

\* C18, per accepted trade: a sell of all that is held deletes the symbol's entry,
\* a smaller sell leaves the remainder, and a buy of a symbol that has no entry
\* starts from quantity 0
C18_TradeClosesPosition ==
    TradeAccepted =>
        LET tx == ledger_call'.tx
        IN  /\ (tx.side = "sell" /\ tx.amount = HeldBefore(tx.symbol))
                  => tx.symbol \notin DOMAIN positions'
            /\ (tx.side = "sell" /\ tx.amount < HeldBefore(tx.symbol))
                  => /\ tx.symbol \in DOMAIN positions'
                     /\ positions'[tx.symbol] = HeldBefore(tx.symbol) - tx.amount
            /\ (tx.side = "buy" /\ tx.symbol \notin DOMAIN positions)
                  => /\ tx.symbol \in DOMAIN positions'
                     /\ positions'[tx.symbol] = tx.amount
            /\ \A s \in (DOMAIN positions) \ {tx.symbol} :
                  s \in DOMAIN positions' /\ positions'[s] = positions[s]

\* C18: closed positions are removed: after any sequence of accepted trades no
\* symbol is present in positions with a zero (or negative) quantity; a sell that
\* brings a symbol's quantity to zero deletes the symbol's entry, and a later buy
\* of that symbol starts again from quantity 0.
C18_ClosedPositionsRemoved == []C18_NoEmptyPosition /\ [][C18_TradeClosesPosition]_vars

\* C18's case: the last call sold all of a symbol, whose entry is gone, while
\* another symbol is still held
C18_Witness ==
    /\ ledger_call.op = "execute_trade"
    /\ ledger_call.raised = None
    /\ ledger_call.tx.side = "sell"
    /\ ledger_call.tx.symbol \notin DOMAIN positions
    /\ positions # NoPrices

\* No veto rule matches the last aggregate_signals call, by its clamped arguments
\* and its weighted score
NoVetoMatches ==
    /\ ~(10 * Clamped(agg_call.sentiment_data) < -8 * SD)
    /\ ~(/\ 10 * Clamped(agg_call.sentiment_data) > 8 * SD
         /\ 10 * Clamped(agg_call.ai_prediction) > 6 * SD)
    /\ ~(/\ 10 * Abs(Clamped(agg_call.quantum_data)) > 9 * SD
         /\ 2 * Abs(Clamped(agg_call.quantum_data) * WD - ScoreOfCall) > SW)

\* C19: threshold decision: with each input clamped to [-1, 1] and weightedScore
\* the weighted sum of the clamped inputs, when no veto rule matches
\* aggregate_signals returns BUY iff weightedScore > 0.3, SELL iff weightedScore <
\* -0.3 and HOLD otherwise (exactly 0.3 or -0.3 is HOLD), with confidence
\* min(1.0, |weightedScore|); inputs outside [-1, 1] give the result of the
\* nearest bound and are never rejected.
C19_ThresholdDecision ==
    Aggregated =>
        /\ agg_call.signal.action \in {"BUY", "SELL", "HOLD"}
        /\ NoVetoMatches =>
              /\ agg_call.signal.action = "BUY" <=> 10 * ScoreOfCall > 3 * SW
              /\ agg_call.signal.action = "SELL" <=> 10 * ScoreOfCall < -3 * SW
              /\ agg_call.signal.action = "HOLD"
                    <=> (10 * ScoreOfCall <= 3 * SW /\ 10 * ScoreOfCall >= -3 * SW)
              /\ agg_call.signal.confidence
                    = (IF Abs(ScoreOfCall) < SW THEN Abs(ScoreOfCall) ELSE SW)

\* C19's case: a sentiment above 1 was clamped to 1 and gave a weighted score of
\* exactly 0.3, which is a HOLD
C19_Witness ==
    /\ Aggregated
    /\ NoVetoMatches
    /\ agg_call.sentiment_data > SD
    /\ 10 * ScoreOfCall = 3 * SW
    /\ agg_call.signal.action = "HOLD"
    /\ 10 * agg_call.signal.confidence = 3 * SW

\* The conditions of the three veto rules on the last aggregate_signals call
NegativeSentimentMatches == 10 * Clamped(agg_call.sentiment_data) < -8 * SD

AgreementMatches ==
    /\ 10 * Clamped(agg_call.sentiment_data) > 8 * SD
    /\ 10 * Clamped(agg_call.ai_prediction) > 6 * SD

DivergenceMatches ==
    /\ 10 * Abs(Clamped(agg_call.quantum_data)) > 9 * SD
    /\ 2 * Abs(Clamped(agg_call.quantum_data) * WD - ScoreOfCall) > SW

\* C20: veto priority order: the veto rules are evaluated in the fixed order
\* negative-sentiment, agreement, quantum-divergence and the first match alone
\* decides the action; the quantum-divergence veto (|quantum| > 0.9 and
\* |quantum - weightedScore| > 0.5) yields HOLD, whatever side of the +/-0.3
\* thresholds the weighted score is on, exactly when neither sentiment veto matches.
C20_VetoPriority ==
    Aggregated =>
        /\ NegativeSentimentMatches
              => /\ agg_call.signal.action \in {"SELL", "HOLD"}
                 /\ agg_call.signal.reason \in
                      {"Veto: Strong negative sentiment with negative overall signal",
                       "Veto: Strong negative sentiment prevents buying"}
        /\ (~NegativeSentimentMatches /\ AgreementMatches)
              => /\ agg_call.signal.action = "BUY"
                 /\ agg_call.signal.reason = "Veto: Strong positive sentiment confirmed by AI"
        /\ (~NegativeSentimentMatches /\ ~AgreementMatches /\ DivergenceMatches)
              => agg_call.signal.action = "HOLD"
        /\ agg_call.signal.reason = "Veto: Quantum indicator shows extreme divergence"
              <=> (~NegativeSentimentMatches /\ ~AgreementMatches /\ DivergenceMatches)
        /\ agg_call.signal.reason \in VetoReasons
              <=> (NegativeSentimentMatches \/ AgreementMatches \/ DivergenceMatches)

\* C20's case: the quantum-divergence veto held a score above the BUY threshold
C20_Witness ==
    /\ Aggregated
    /\ DivergenceMatches
    /\ ~NegativeSentimentMatches
    /\ ~AgreementMatches
    /\ 10 * ScoreOfCall > 3 * SW
    /\ agg_call.signal.action = "HOLD"
    /\ agg_call.signal.reason = "Veto: Quantum indicator shows extreme divergence"

---------------------------------------------------------------------------
(* C11 *)

\* run has returned and no other call of it has begun
RunCompleted == ~backtester.running /\ backtester.result # Nothing

\* The run just completed had the series and the strategy parameters of the first
SameInputsAsFirst ==
    /\ backtester.data = backtester.first[1].data
    /\ backtester.parameters = backtester.first[1].parameters

\* The timestamps of the rows of the series
RowTimestamps(data) == {data[i].timestamp : i \in 1..Len(data)}

\* Point i of the equity curve carries the timestamp of row i, and every trade
\* record the timestamp of a row
OnlyRowTimestamps(b) ==
    /\ \A i \in 1..Len(b.equity_curve) :
          /\ i <= Len(b.data)
          /\ b.equity_curve[i].timestamp = b.data[i].timestamp
    /\ \A i \in 1..Len(b.trade_history) :
          b.trade_history[i].timestamp \in RowTimestamps(b.data)

C11_SameAsFirstRun ==
    (RunCompleted /\ SameInputsAsFirst) => backtester.result[1] = backtester.first[1].result

C11_RunStartsClean ==
    (~backtester.running /\ backtester'.running) =>
        /\ backtester'.cash = backtester.initial_capital
        /\ backtester'.asset_balance = 0
        /\ backtester'.position = None
        /\ backtester'.equity_curve = << >>
        /\ backtester'.trade_history = << >>

\* C11: backtest determinism: a run of a Backtester, fresh or used, on the
\* series and the strategy parameters of its first run returns the equity
\* curve and the trade log the first run returned; every run starts from
\* initial_capital, zero asset balance, no position and an empty equity curve
\* and trade history, and records only timestamps of the rows.
C11_BacktestDeterminism ==
    /\ [](C11_SameAsFirstRun /\ OnlyRowTimestamps(backtester))
    /\ [][C11_RunStartsClean]_vars

\* A used Backtester that has also completed a run on another input repeats its
\* first run, a BUY and a SELL in its trade log
C11_Witness ==
    /\ RunCompleted
    /\ backtester.runs = 3
    /\ backtester.other
    /\ SameInputsAsFirst
    /\ Len(backtester.result[1].trade_history) = 2
    /\ Len(backtester.result[1].equity_curve) = 4
    /\ backtester.result[1] = backtester.first[1].result

---------------------------------------------------------------------------
(* C21 *)

\* The last call was check_trade_risk for a sell
SellChecked ==
    /\ ledger_call.op = "check_trade_risk"
    /\ ledger_call.tx.side = "sell"

\* check_max_drawdown(portfolio, current_prices) on the arguments of the last call
DrawdownCheckNow ==
    check_max_drawdown(cash_balance, positions, max_drawdown_pct, risk_initial_balance,
                       ledger_call.prices_given, ledger_call.prices)

\* C21: risk check for a sell: the result of check_trade_risk for side = sell is
\* the result of check_max_drawdown on the same portfolio and prices, whatever
\* the amount and the price of the trade, also when amount * price exceeds
\* max_position_size_pct of the portfolio.
C21_SellRiskIsDrawdownCheck ==
    SellChecked =>
        /\ ledger_call.result = DrawdownCheckNow
        /\ \A amount \in TxAmounts \cup {0, 10 * Q}, price \in {0, 1, 50, 100} :
              check_trade_risk(cash_balance, positions, max_position_size_pct,
                               max_drawdown_pct, risk_initial_balance, "sell",
                               amount, price, ledger_call.prices_given,
                               ledger_call.prices) = ledger_call.result

\* A sell larger than the position limit passes with the drawdown check armed
C21_Witness ==
    /\ SellChecked
    /\ ledger_call.prices_given
    /\ get_total_value(cash_balance, positions, ledger_call.prices) > 0
    /\ PositionTooLarge(max_position_size_pct,
                        ledger_call.tx.amount * ledger_call.tx.price,
                        get_total_value(cash_balance, positions, ledger_call.prices))
    /\ risk_initial_balance > 0
    /\ ledger_call.result = TRUE

---------------------------------------------------------------------------
(* C22 *)

\* |x - target| <= tolerance
Near(x, target, tolerance) == Abs(x - target) <= tolerance

\* PaperTrader(10000.0) has made one trade: a BUY at 100 of all its cash
AfterBuyAllIn ==
    /\ initial_balance = 10000 * Q
    /\ fee_rate = DefaultFeeRate
    /\ Len(trade_history) >= 1
    /\ trade_history[1].action = "BUY"
    /\ trade_history[1].price = 100
    /\ trade_history[1].amount * 100 + trade_history[1].fee = initial_balance

\* ... and then a SELL at 120 of the whole position
AfterSellAll ==
    /\ AfterBuyAllIn
    /\ Len(trade_history) = 2
    /\ trade_history[2].action = "SELL"
    /\ trade_history[2].price = 120
    /\ trade_history[2].amount = trade_history[1].holdings_after

\* total return in percent is positive at the price p
PositiveReturn(p) ==
    LET pl == get_profit_loss(balance, holdings, initial_balance, p)
    IN  pl.absolute > 0 /\ pl.percentage[1] > 0 /\ pl.percentage[2] > 0

\* C22: end-to-end scenario with the figures as stated: position about 9.99 and
\* fee about 10 after the BUY, cash about 1198.8 and fee about 1.2 after the
\* SELL, each within one percent, and a positive return.
C22_AsStated ==
    /\ AfterBuyAllIn =>
          /\ Near(trade_history[1].holdings_after, (999 * Q) \div 100, Q \div 10)
          /\ Near(trade_history[1].balance_after, 0, Q \div 10)
          /\ Near(trade_history[1].fee, 10 * Q, Q \div 10)
    /\ AfterSellAll =>
          /\ Near(balance, (11988 * Q) \div 10, 12 * Q)
          /\ Near(trade_history[2].fee, (12 * Q) \div 10, Q \div 100)
          /\ PositiveReturn(120)

\* C22, with the figures of the code: the BUY of all of 10000 at 100 with fee
\* rate 0.001 charges a fee of 10 and leaves a position of 99.9 and no cash;
\* the SELL of the whole position at 120 charges 11.988 and leaves cash of
\* 11976.012 and no position; the return is positive.
C22_Scenario ==
    /\ AfterBuyAllIn =>
          /\ trade_history[1].holdings_after = (999 * Q) \div 10
          /\ trade_history[1].balance_after = 0
          /\ trade_history[1].fee = 10 * Q
    /\ AfterSellAll =>
          /\ balance = 11976 * Q + (12 * Q) \div 1000
          /\ holdings = 0
          /\ trade_history[2].fee = 11 * Q + (988 * Q) \div 1000
          /\ PositiveReturn(120)

C22_Witness ==
    /\ AfterSellAll
    /\ ret.trade_percentage = RD
    /\ balance > initial_balance

---------------------------------------------------------------------------
(* C23 *)

\* A cycle is in flight: begun, and its step not yet over or not yet left
CycleInFlight == loop.pc = "cycle"

\* The trader's ledger or the kernel changes
EngineChanges == <<balance, holdings, trade_history, kernel>>' # <<balance, holdings, trade_history, kernel>>

\* The whole step of the cycle in flight, and nothing else, changes the engine
C23_OnlyTheCycleInFlightActs ==
    EngineChanges =>
        /\ CycleInFlight
        /\ loop.state # "STOPPED"
        /\ kernel.step_count = loop.cycle - 1
        /\ kernel'.step_count = loop.cycle
        /\ loop' = loop

\* A cycle begins only at the check, with the flag down and the last cycle over
C23_CyclesDoNotOverlap ==
    loop'.cycle # loop.cycle =>
        /\ loop'.cycle = loop.cycle + 1
        /\ loop.pc = "check"
        /\ loop.state = "RUNNING"
        /\ kernel.step_count = loop.cycle
        /\ UNCHANGED <<balance, holdings, trade_history, kernel>>

\* RUNNING, then STOPPING, then STOPPED; STOPPED only at the check between cycles
C23_StopBetweenCycles ==
    loop'.state # loop.state =>
        \/ loop.state = "RUNNING" /\ loop'.state = "STOPPING" /\ loop'.pc = loop.pc
        \/ /\ loop.state = "STOPPING" /\ loop'.state = "STOPPED"
           /\ loop.pc = "check"
           /\ kernel.step_count = loop.cycle

---------------------------------------------------------------------------
(* C24 *)

\* C24: configuration errors are fatal at construction: no aggregator exists
\* with a negative weight, no paper trader with a negative fee rate, no risk
\* engine with a limit outside (0, 1].
C24_ConfigErrorsFatal ==
    /\ agg_constructed =>
          sentiment_weight >= 0 /\ quantum_weight >= 0 /\ ai_weight >= 0
    /\ fee_rate >= 0
    /\ ledger_call.op # None =>
          /\ 0 < max_position_size_pct /\ max_position_size_pct <= PD
          /\ 0 < max_drawdown_pct /\ max_drawdown_pct <= PD

---------------------------------------------------------------------------
(* C25 *)

\* The number of records of the history that are SELLs, and SELLs with pnl > 0
SellCount(hist) == Cardinality({i \in 1..Len(hist) : hist[i].type = "SELL"})
WinCount(hist) ==
    Cardinality({i \in 1..Len(hist) : hist[i].type = "SELL" /\ hist[i].pnl[1] > 0})

WinRateCalled == analytics.op = "calculate_win_rate"

\* C25: win rate: calculate_win_rate is 100 * (SELL records with pnl > 0) /
\* (SELL records), BUY records counting in neither; it is 0 for an empty
\* history and for a history without a SELL, and it lies within [0, 100].
C25_WinRate ==
    WinRateCalled =>
        LET rate  == analytics.result
            sells == SellCount(analytics.trade_history)
            wins  == WinCount(analytics.trade_history)
        IN  /\ rate[2] > 0
            /\ sells > 0 => rate[1] * sells = 100 * wins * rate[2]
            /\ sells = 0 => rate[1] = 0
            /\ 0 <= rate[1] /\ rate[1] <= 100 * rate[2]

\* Two BUYs, a winning, a break-even SELL: one win in two
C25_Witness ==
    /\ WinRateCalled
    /\ Len(analytics.trade_history) = 4
    /\ SellCount(analytics.trade_history) = 2
    /\ WinCount(analytics.trade_history) = 1
    /\ \E i \in 1..4 : analytics.trade_history[i].pnl = Some(0)
    /\ analytics.result[1] * 2 = 100 * analytics.result[2]

---------------------------------------------------------------------------
(* C26 *)

\* The rows of the series the loop of run has been through
RowsDone == IF backtester.running THEN backtester.idx ELSE Len(backtester.data)

\* One point per row gone through, in row order, with the row's timestamp, its
\* total the sum of its cash and its asset value
C26_PointPerRow ==
    /\ Len(backtester.equity_curve) = RowsDone
    /\ \A i \in 1..Len(backtester.equity_curve) :
          LET point == backtester.equity_curve[i]
          IN  /\ point.timestamp = backtester.data[i].timestamp
              /\ point.total_value = point.cash + point.asset_value

\* What run returns: the curve of the whole series and its last total
C26_FinalValue ==
    RunCompleted =>
        LET result == backtester.result[1]
        IN  /\ result.equity_curve = backtester.equity_curve
            /\ Len(result.equity_curve) = Len(backtester.data)
            /\ result.final_value =
                  IF backtester.data = << >>
                  THEN backtester.initial_capital
                  ELSE result.equity_curve[Len(result.equity_curve)].total_value

\* C26: equity curve shape: run emits exactly one equity-curve point per input
\* row, in row order and with that row's timestamp; every point has
\* total_value = cash + asset_value; final_value is the last point's
\* total_value, and initial_capital when the series is empty.
C26_EquityCurveShape ==
    (backtester.runs > 0 \/ backtester.running) => (C26_PointPerRow /\ C26_FinalValue)

\* A run over four rows that bought and sold: points with and without assets
C26_Witness ==
    /\ RunCompleted
    /\ Len(backtester.result[1].equity_curve) = 4
    /\ backtester.result[1].equity_curve[3].asset_value > 0
    /\ backtester.result[1].equity_curve[3].cash = 0
    /\ backtester.result[1].equity_curve[4].asset_value = 0
    /\ backtester.result[1].final_value # backtester.initial_capital
    /\ backtester.result[1].final_value = backtester.result[1].equity_curve[4].total_value

---------------------------------------------------------------------------
(* C27 *)

\* C27: PaperTrader non-negativity: an execute_order at a price > 0 with a
\* trade_percentage in [0, 1], after any orders and resets, leaves balance >= 0
\* and holdings >= 0; one with a trade_percentage outside [0, 1] raises
\* ValueError and leaves balance, holdings and trade_history unchanged.
C27_NonNegativeTrader ==
    [][OrderCalled =>
          IF TradePercentageValid(ret'.trade_percentage)
          THEN ret'.current_price > 0 => (balance' >= 0 /\ holdings' >= 0)
          ELSE /\ ret'.outcome = "ValueError"
               /\ UNCHANGED <<balance, holdings, trade_history>>
      ]_vars

---------------------------------------------------------------------------
(* C28 *)

\* The BUY and SELL records of the history, in order
ExecutedTrades(hist) == SelectSeq(hist, LAMBDA t : t.action \in {"BUY", "SELL"})

\* BUY, SELL, BUY, ...
Alternating(trades) ==
    \A i \in 1..Len(trades) :
        trades[i].action = (IF i % 2 = 1 THEN "BUY" ELSE "SELL")

\* A signal for the side that executed last is recorded as a HOLD
C28_RepeatedSignalHolds ==
    (/\ OrderCalled
     /\ min_trade_amount > 0
     /\ ExecutedTrades(trade_history) # << >>
     /\ ret'.action = LastTrade(ExecutedTrades(trade_history)).action)
    => /\ ret'.outcome # "Trade"
       /\ ExecutedTrades(trade_history') = ExecutedTrades(trade_history)
       /\ ret'.outcome = None =>
             /\ Len(trade_history') = Len(trade_history) + 1
             /\ LastTrade(trade_history').action = "HOLD"

\* C28: executed trades alternate when trading all-in: with trade_percentage =
\* 1.0 and min_trade_amount > 0 the first executed trade is a BUY, a BUY signal
\* after an executed BUY is recorded as HOLD until a SELL executes, and a SELL
\* signal after an executed SELL until a BUY executes, so the BUY and SELL
\* records of trade_history strictly alternate.
C28_AllInAlternates ==
    /\ [](min_trade_amount > 0 => Alternating(ExecutedTrades(trade_history)))
    /\ [][C28_RepeatedSignalHolds]_vars

\* A BUY, a second BUY signal recorded as HOLD, then the SELL
C28_Witness ==
    /\ min_trade_amount > 0
    /\ Len(trade_history) = 3
    /\ trade_history[1].action = "BUY"
    /\ trade_history[2].action = "HOLD"
    /\ trade_history[2].reason = "Insufficient balance for BUY"
    /\ trade_history[3].action = "SELL"

---------------------------------------------------------------------------
(* C29 *)

\* The BUY and the SELL records of the backtester's trade history
BuyCount(hist) == Cardinality({i \in 1..Len(hist) : hist[i].type = "BUY"})
SoldCount(hist) == Cardinality({i \in 1..Len(hist) : hist[i].type = "SELL"})

\* LONG exactly with assets, no cash while LONG, records alternating from a BUY
C29_PositionInvariant ==
    LET b == backtester
    IN  /\ (b.position = "LONG") <=> (b.asset_balance > 0)
        /\ b.position \in {"LONG", None}
        /\ b.position = "LONG" => b.cash = 0
        /\ \A i \in 1..Len(b.trade_history) :
              b.trade_history[i].type = (IF i % 2 = 1 THEN "BUY" ELSE "SELL")
        /\ BuyCount(b.trade_history) - SoldCount(b.trade_history)
              = (IF b.position = "LONG" THEN 1 ELSE 0)

\* The signal the strategy gives for the row the loop of run is at
SignalNow ==
    call_strategy(backtester.parameters, backtester.strategy[1],
                  backtester.data[backtester.idx + 1]).signal

\* A BUY signal while LONG and a SELL signal while flat change nothing
C29_IdleSignalsIgnored ==
    (/\ backtester.running
     /\ backtester'.running
     /\ backtester'.idx = backtester.idx + 1
     /\ \/ SignalNow = "BUY" /\ backtester.position = "LONG"
        \/ SignalNow = "SELL" /\ backtester.position = None)
    => /\ backtester'.trade_history = backtester.trade_history
       /\ backtester'.cash = backtester.cash
       /\ backtester'.asset_balance = backtester.asset_balance
       /\ backtester'.position = backtester.position

\* C29: Backtester position state machine: at every step of run, with prices
\* > 0 and commission_rate in [0, 1), position is LONG if and only if
\* asset_balance > 0 and cash is 0 while LONG; a BUY signal while LONG and a
\* SELL signal while flat change nothing and add no trade record; trade_history
\* alternates BUY, SELL, BUY, ... from a BUY, and #BUY - #SELL is 1 when LONG
\* and 0 when flat.
C29_PositionStateMachine ==
    /\ [](backtester.running => C29_PositionInvariant)
    /\ [][C29_IdleSignalsIgnored]_vars

\* Closes 2, 2, 4, 4 under momentum_strategy(3, 0.02): BUY at the third row and
\* again at the fourth, which finds the position LONG and changes nothing
C29_Witness ==
    /\ backtester.running
    /\ backtester.parameters = <<"momentum_strategy", 3, 2>>
    /\ backtester.data = Rows(<<2, 2, 4, 4>>)
    /\ backtester.idx = 4
    /\ backtester.position = "LONG"
    /\ backtester.asset_balance > 0
    /\ backtester.cash = 0
    /\ Len(backtester.trade_history) = 1
    /\ backtester.trade_history[1].timestamp = 30

---------------------------------------------------------------------------
\* C30

\* The last operation was a step that returned its result
StepReturned == AfterStep /\ kernel.result.raised = None

\* C30: right after a step that returned, get_status reports that step's number,
\* the three scores and the price the step used, and the portfolio value and
\* profit/loss of the step's result, whether or not a fetcher failed or was absent
C30_StatusAgreesWithLastCycle ==
    StepReturned =>
        /\ get_status.raised = None
        /\ get_status.step_count = kernel.result.step
        /\ get_status.latest_sentiment = Some(kernel.result.sentiment)
        /\ get_status.latest_quantum = Some(kernel.result.quantum)
        /\ get_status.latest_ai = Some(kernel.result.ai)
        /\ get_status.latest_price = Some(kernel.result.price)
        /\ get_status.portfolio_value = kernel.result.portfolio_value
        /\ get_status.profit_loss = kernel.result.profit_loss

\* Every fetcher is configured and returned a value in the last step, the price positive
EveryFetchSucceeded ==
    /\ kernel.fetchers.sentiment /\ kernel.outcomes.sentiment # Nothing
    /\ kernel.fetchers.quantum /\ kernel.outcomes.quantum # Nothing
    /\ kernel.fetchers.ai /\ kernel.outcomes.ai # Nothing
    /\ kernel.fetchers.price /\ kernel.outcomes.price # Nothing
    /\ kernel.outcomes.price[1] > 0

\* What the code does give: the agreement of C30 after a step in which every
\* fetch succeeded
C30_AgreesWhenEveryFetchSucceeded ==
    (StepReturned /\ EveryFetchSucceeded) =>
        /\ get_status.raised = None
        /\ get_status.step_count = kernel.result.step
        /\ get_status.latest_sentiment = Some(kernel.result.sentiment)
        /\ get_status.latest_quantum = Some(kernel.result.quantum)
        /\ get_status.latest_ai = Some(kernel.result.ai)
        /\ get_status.latest_price = Some(kernel.result.price)
        /\ get_status.portfolio_value = kernel.result.portfolio_value
        /\ get_status.profit_loss = kernel.result.profit_loss

\* A step bought at the fallback price 1.0 because the price fetch failed: the
\* status has no price and values the holdings at 0.0
C30_FailedPriceFetch ==
    /\ StepReturned
    /\ kernel.fetchers.price
    /\ kernel.outcomes.price = Nothing
    /\ kernel.latest_price = Nothing
    /\ holdings > 0
    /\ get_status.portfolio_value < kernel.result.portfolio_value

====
